---------------------------- MODULE Spec2Model ----------------------------
(***************************************************************************)
(* A model of the ai-sales-analytics chat back end:                        *)
(*   - SQLValidator.validate   (apps/chat/services/sql_validator.py)       *)
(*   - QueryExecutor.execute   (apps/chat/services/query_executor.py)      *)
(*   - ChatAgent.run / ChatAgent.stream_run (apps/chat/services/agent.py)  *)
(*   - ChatMessageView.post / chat_stream    (apps/chat/views.py)          *)
(*                                                                         *)
(* SQL text is a sequence of one-character strings, so that the regular    *)
(* expressions of the validator are modelled character by character.       *)
(***************************************************************************)
EXTENDS Integers, Sequences, FiniteSets, TLC

(***************************************************************************)
(* Bounds of the model.                                                    *)
(***************************************************************************)
\* number of text pieces a candidate SQL text is assembled from
MaxPieces == 4
\* rows a result set may hold beyond HARD_ROW_LIMIT
MaxExtraRows == 3
\* milliseconds the clock may advance during one execute call
MaxClock == 2
\* tool calls of one orchestration beyond the first of each completion
MaxExtraCalls == 1
\* rows a successful query returns to the orchestrator
MaxRowCount == 2
\* chunks of a streamed answer
MaxChunks == 2
\* turns a conversation holds before the request
MaxPriorTurns == 1
\* the clock of the schema cache advances so many times
MaxTicks == 3
\* invalidate() is called at most so many times
MaxInvalidations == 2

(***************************************************************************)
(* Characters and character classes.                                       *)
(***************************************************************************)
LowerCase == <<"a", "b", "c", "d", "e", "f", "g", "h", "i", "j", "k", "l", "m",
               "n", "o", "p", "q", "r", "s", "t", "u", "v", "w", "x", "y", "z">>
UpperCase == <<"A", "B", "C", "D", "E", "F", "G", "H", "I", "J", "K", "L", "M",
               "N", "O", "P", "Q", "R", "S", "T", "U", "V", "W", "X", "Y", "Z">>
Digits == <<"0", "1", "2", "3", "4", "5", "6", "7", "8", "9">>

Range(f) == {f[i] : i \in DOMAIN f}
Min(S) == CHOOSE x \in S : \A y \in S : x <= y

\* str.strip() with no argument and the regex class \s (ASCII part)
Whitespace == {" ", "\n", "\t", "\r"}
DigitSet == Range(Digits)
\* the regex class \w (ASCII part)
WordChars == Range(LowerCase) \cup Range(UpperCase) \cup DigitSet \cup {"_"}

IsSpace(c) == c \in Whitespace
IsDigit(c) == c \in DigitSet
IsWord(c) == c \in WordChars

\* str.upper() on one character
ToUpper(c) ==
    IF c \in Range(LowerCase)
    THEN UpperCase[CHOOSE i \in DOMAIN LowerCase : LowerCase[i] = c]
    ELSE c
\* str.upper()
Upper(s) == [i \in 1..Len(s) |-> ToUpper(s[i])]

\* s[i:] (1-based, i may be Len(s)+1)
From(s, i) == SubSeq(s, i, Len(s))

\* the first position at or after i whose character is not in class, Len(s)+1
\* when there is none
RECURSIVE Scan(_, _, _)
Scan(s, i, class) ==
    IF i > Len(s) \/ s[i] \notin class THEN i ELSE Scan(s, i + 1, class)

\* the first position at or after i whose character is in class, Len(s)+1
\* when there is none
RECURSIVE ScanTo(_, _, _)
ScanTo(s, i, class) ==
    IF i > Len(s) \/ s[i] \in class THEN i ELSE ScanTo(s, i + 1, class)

\* the last position at or before i whose character is not in class, 0 when
\* there is none
RECURSIVE ScanBack(_, _, _)
ScanBack(s, i, class) ==
    IF i < 1 \/ s[i] \notin class THEN i ELSE ScanBack(s, i - 1, class)

\* int(digits)
RECURSIVE ParseInt(_)
ParseInt(ds) ==
    IF ds = <<>> THEN 0
    ELSE 10 * ParseInt(SubSeq(ds, 1, Len(ds) - 1))
         + ((CHOOSE i \in DOMAIN Digits : Digits[i] = ds[Len(ds)]) - 1)

\* '{}'.format(n) for a natural number n
RECURSIVE FormatInt(_)
FormatInt(n) ==
    IF n < 10 THEN <<Digits[n + 1]>>
    ELSE FormatInt(n \div 10) \o <<Digits[(n % 10) + 1]>>

(***************************************************************************)
(* sql_validator.py                                                        *)
(***************************************************************************)
SELECT == <<"S", "E", "L", "E", "C", "T">>
LIMIT == <<"L", "I", "M", "I", "T">>
\* the backquote character (a string of TLA+ cannot hold one)
BQ == "backquote"
FENCE == <<BQ, BQ, BQ>>

DANGEROUS_KEYWORDS == {
    <<"I", "N", "S", "E", "R", "T">>,
    <<"U", "P", "D", "A", "T", "E">>,
    <<"D", "E", "L", "E", "T", "E">>,
    <<"D", "R", "O", "P">>,
    <<"C", "R", "E", "A", "T", "E">>,
    <<"A", "L", "T", "E", "R">>,
    <<"T", "R", "U", "N", "C", "A", "T", "E">>,
    <<"E", "X", "E", "C">>,
    <<"E", "X", "E", "C", "U", "T", "E">>,
    <<"G", "R", "A", "N", "T">>,
    <<"R", "E", "V", "O", "K", "E">> }

MAX_ROWS == 200

\* Optional values: None of Python against a set value.
NoText == [set |-> FALSE, text |-> <<>>]
SomeText(t) == [set |-> TRUE, text |-> t]
\* An error text is a format string with its argument.
NoError == [set |-> FALSE, msg |-> "", arg |-> <<>>]
SomeError(m, a) == [set |-> TRUE, msg |-> m, arg |-> a]

ValidationResult(is_valid, error, sanitized_sql) ==
    [is_valid |-> is_valid, error |-> error, sanitized_sql |-> sanitized_sql]

\* str.strip()
Strip(s) ==
    LET first == Scan(s, 1, Whitespace)
    IN  IF first > Len(s) THEN <<>>
        ELSE SubSeq(s, first, ScanBack(s, Len(s), Whitespace))

\* str.rstrip(';')
RStripSemicolon(s) == SubSeq(s, 1, ScanBack(s, Len(s), {";"}))

\* s.startswith(p)
StartsWith(s, p) == Len(s) >= Len(p) /\ SubSeq(s, 1, Len(p)) = p
\* s.endswith(p)
EndsWith(s, p) == Len(s) >= Len(p) /\ SubSeq(s, Len(s) - Len(p) + 1, Len(s)) = p

\* re.sub(r'^<fence>\w*\n?', '', s), <fence> being three backquotes
StripOpenFence(s) ==
    IF ~StartsWith(s, FENCE) THEN s
    ELSE LET k == Scan(s, 4, WordChars)
             k2 == IF k <= Len(s) /\ s[k] = "\n" THEN k + 1 ELSE k
         IN  From(s, k2)

\* re.sub(r'\n?<fence>$', '', s): '$' matches at the end of the text and before a
\* newline that is its last character.
StripCloseFence(s) ==
    LET body == IF EndsWith(s, <<"\n">>) THEN SubSeq(s, 1, Len(s) - 1) ELSE s
        tail == IF EndsWith(s, <<"\n">>) THEN <<"\n">> ELSE <<>>
    IN  IF ~EndsWith(body, FENCE) THEN s
        ELSE LET start == Len(body) - 2
                 start2 == IF start > 1 /\ body[start - 1] = "\n"
                           THEN start - 1 ELSE start
             IN  SubSeq(body, 1, start2 - 1) \o tail

\* lines 26-31
Clean(sql) == Strip(StripCloseFence(StripOpenFence(RStripSemicolon(Strip(sql)))))

\* a variant of line 33 that accepts SELECT anywhere in the text
StartsWithSelect_Anywhere(cleaned) ==
    \E i \in 1..Len(cleaned) : StartsWith(From(Upper(cleaned), i), SELECT)

\* line 33
StartsWithSelect(cleaned) == StartsWith(Upper(cleaned), SELECT)

\* the end of the maximal run of characters of class that starts at i
RunEnd(s, i, class) == Scan(s, i, class) - 1

\* a variant of line 36 that splits the text at whitespace only (str.split())
RECURSIVE Tokens_SplitOnWhitespace(_)
Tokens_SplitOnWhitespace(s) ==
    LET i == Scan(s, 1, Whitespace)
        e == ScanTo(s, i, Whitespace) - 1
    IN  IF i > Len(s) THEN <<>>
        ELSE <<SubSeq(s, i, e)>> \o Tokens_SplitOnWhitespace(From(s, e + 1))

\* re.findall(r'\b\w+\b', s): the maximal runs of word characters, in order
RECURSIVE Tokens(_)
Tokens(s) ==
    LET i == ScanTo(s, 1, WordChars)
    IN  IF i > Len(s) THEN <<>>
        ELSE <<SubSeq(s, i, RunEnd(s, i, WordChars))>>
                 \o Tokens(From(s, RunEnd(s, i, WordChars) + 1))

\* lines 37-39: the first token that is a dangerous keyword, <<>> when
\* there is none
RECURSIVE FirstDangerousOf(_)
FirstDangerousOf(tokens) ==
    IF tokens = <<>> THEN <<>>
    ELSE IF Head(tokens) \in DANGEROUS_KEYWORDS THEN Head(tokens)
    ELSE FirstDangerousOf(Tail(tokens))

\* a variant of lines 36-39 that looks for the keywords anywhere in the text,
\* inside longer words too
FirstDangerous_Substring(cleaned) ==
    LET up == Upper(cleaned)
        found == {i \in 1..Len(up) : \E kw \in DANGEROUS_KEYWORDS : StartsWith(From(up, i), kw)}
    IN  IF found = {} THEN <<>>
        ELSE CHOOSE kw \in DANGEROUS_KEYWORDS : StartsWith(From(up, Min(found)), kw)

\* lines 36-39
FirstDangerous(cleaned) == FirstDangerousOf(Tokens(Upper(cleaned)))

\* A match of r'\bLIMIT\s+(\d+)\b' (re.IGNORECASE) that starts at position i:
\* a record of the end of the match and the digits of group 1.
LimitMatchAt(s, i) ==
    IF /\ i + 5 <= Len(s)
       /\ ToUpper(s[i]) = "L"
       /\ Upper(SubSeq(s, i, i + 4)) = LIMIT
       /\ (i = 1 \/ ~IsWord(s[i - 1]))
       /\ IsSpace(s[i + 5])
    THEN LET d == RunEnd(s, i + 5, Whitespace) + 1
         IN  IF d <= Len(s) /\ IsDigit(s[d])
             THEN LET e == RunEnd(s, d, DigitSet)
                  IN  IF e = Len(s) \/ ~IsWord(s[e + 1])
                      THEN [found |-> TRUE, end |-> e, digits |-> SubSeq(s, d, e)]
                      ELSE [found |-> FALSE, end |-> 0, digits |-> <<>>]
             ELSE [found |-> FALSE, end |-> 0, digits |-> <<>>]
    ELSE [found |-> FALSE, end |-> 0, digits |-> <<>>]

LimitMatches(s) == {i \in 1..Len(s) : LimitMatchAt(s, i).found}

\* re.sub(r'\bLIMIT\s+\d+\b', 'LIMIT <MAX_ROWS>', s, flags=re.IGNORECASE)
RECURSIVE ReplaceLimits(_)
ReplaceLimits(s) ==
    LET found == LimitMatches(s)
    IN  IF found = {} THEN s
        ELSE
         LET i == Min(found)
             m == LimitMatchAt(s, i)
         IN  SubSeq(s, 1, i - 1) \o LIMIT \o <<" ">> \o FormatInt(MAX_ROWS)
                 \o ReplaceLimits(From(s, m.end + 1))

\* a variant of lines 44-55 that never injects a LIMIT clause
EnforceLimit_NoInject(cleaned) ==
    LET found == LimitMatches(cleaned)
    IN
    IF found # {}
    THEN LET existing_limit == ParseInt(LimitMatchAt(cleaned, Min(found)).digits)
         IN  IF existing_limit > MAX_ROWS THEN ReplaceLimits(cleaned) ELSE cleaned
    ELSE cleaned

\* lines 44-55
EnforceLimit(cleaned) ==
    LET found == LimitMatches(cleaned)
    IN
    IF found # {}
    THEN LET existing_limit == ParseInt(LimitMatchAt(cleaned, Min(found)).digits)
         IN  IF existing_limit > MAX_ROWS THEN ReplaceLimits(cleaned) ELSE cleaned
    ELSE cleaned \o <<" ">> \o LIMIT \o <<" ">> \o FormatInt(MAX_ROWS)

\* a validator that looks for blocklisted keywords before it looks for SELECT
validate_KeywordsFirst(sql) ==
    IF sql = <<>> THEN ValidationResult(FALSE, SomeError("Empty SQL", <<>>), NoText)
    ELSE LET cleaned == Clean(sql)
             token == FirstDangerous(cleaned)
         IN  IF token # <<>>
             THEN ValidationResult(FALSE,
                      SomeError("Forbidden keyword: {}", token), NoText)
             ELSE IF ~StartsWithSelect(cleaned)
             THEN ValidationResult(FALSE,
                      SomeError("Only SELECT queries are allowed", <<>>), NoText)
             ELSE ValidationResult(TRUE, NoError, SomeText(EnforceLimit(cleaned)))

\* SQLValidator.validate
validate(sql) ==
    IF sql = <<>> THEN ValidationResult(FALSE, SomeError("Empty SQL", <<>>), NoText)
    ELSE LET cleaned == Clean(sql)
             token == FirstDangerous(cleaned)
         IN  IF ~StartsWithSelect(cleaned)
             THEN ValidationResult(FALSE,
                      SomeError("Only SELECT queries are allowed", <<>>), NoText)
             ELSE IF token # <<>>
             THEN ValidationResult(FALSE,
                      SomeError("Forbidden keyword: {}", token), NoText)
             ELSE ValidationResult(TRUE, NoError, SomeText(EnforceLimit(cleaned)))

(***************************************************************************)
(* The validator as a state machine: a candidate text is assembled from    *)
(* pieces, validated, and its sanitized output validated again.            *)
(***************************************************************************)
\* "SELECT a" and "select * from (SELECT b"
PieceSelect == <<"S", "E", "L", "E", "C", "T", " ", "a">>
PieceSubquery == <<"s", "e", "l", "e", "c", "t", " ", "*", " ", "f", "r", "o", "m", " ",
                   "(", "S", "E", "L", "E", "C", "T", " ", "b">>
\* " LIMIT 5" and " limit  300"
PieceLimit5 == <<" ", "L", "I", "M", "I", "T", " ", "5">>
PieceLimit300 == <<" ", "l", "i", "m", "i", "t", " ", " ", "3", "0", "0">>
PieceDrop == <<"d", "r", "o", "p">>
\* "_at", the tail of the column names created_at and updated_at
PieceAt == <<"_", "a", "t">>

\* FENCE is the code fence a language model wraps SQL in
Pieces == {
    FENCE, <<"\n">>, PieceSelect, PieceSubquery, <<")">>,
    PieceLimit5, PieceLimit300, <<";">>, PieceDrop, PieceAt }

VARIABLES vphase, vsql, vpieces, vres, vres2

vvars == <<vphase, vsql, vpieces, vres, vres2>>

VARIABLES
    epc,        \* the place execute has reached
    evendor,    \* conn.vendor
    ebusy,      \* the busy timeout set on the connection, 0 when not set
    ecursor,    \* rows the cursor has still to deliver (Endless: no end)
    easked,     \* the size given to the last fetchmany call
    erows,      \* len(rows)
    ehigh,      \* the largest number of rows held at any time during the call
    eclock,     \* time.time(), in milliseconds since the call started
    eresult,    \* the value returned
    eraised     \* whether an exception left execute

evars == <<epc, evendor, ebusy, ecursor, easked, erows, ehigh, eclock, eresult, eraised>>

VARIABLES
    flow,           \* the entry point that serves the request
    session,        \* whether a conversation is attached to the orchestration
    pc,             \* the place the request has reached
    iterations,
    tool_calls,     \* choice.message.tool_calls of the last completion
    tc,             \* the position of the for loop in tool_calls
    messages,       \* the message history
    sql_used,
    row_count,
    result,         \* the AgentResult returned by run
    requests,       \* the number of requests issued to the model
    tool_choice,    \* the tool_choice of the last request
    requested,      \* the number of tool calls the model has asked for
    invocations,    \* the number of execute_sql calls handled
    oplog,          \* the calls made to the validator and the executor
    audits,         \* the QueryAuditLog rows created
    turns,          \* the ChatMessage rows created
    events,         \* the events yielded to the caller
    full_response,  \* the texts of the chunks received
    response,       \* the HTTP status of a Response, 0 when there is none
    conversations,  \* the number of ChatSession rows created
    reply,          \* how the model answered the last request
    history,        \* the turns the conversation held before the request
    request,        \* request.data of the HTTP request
    connected       \* the caller still reads the stream

avars == <<flow, session, pc, iterations, tool_calls, tc, messages, sql_used, row_count, result,
           requests, tool_choice, requested, invocations, oplog, audits, turns, events,
           full_response, response, conversations, reply, history, request, connected>>

VARIABLES
    cache,      \* the entry of the Django cache under CACHE_KEY
    now,        \* time.time(), in seconds
    spc,        \* the place each caller of get_schema has reached
    cached,     \* the local cached of each caller
    scanned,    \* the models the loop of _build_schema has passed, for each caller
    schema,     \* the local schema of each caller
    returned,   \* what get_schema returned to each caller the last time
    invalidations, \* the calls of invalidate() so far
    builds,     \* the calls of _build_schema since the last invalidation or expiry
    started,    \* what each caller found when its call began
    last,       \* the call of get_schema that returned last
    quiet       \* invalidate() ran with no call in progress and no call has begun since

svars == <<cache, now, spc, cached, scanned, schema, returned, invalidations, builds, started, last, quiet>>

NoResult == ValidationResult(FALSE, NoError, NoText)

InitValidator ==
    /\ vphase = "build"
    /\ vsql = <<>>
    /\ vpieces = 0
    /\ vres = NoResult
    /\ vres2 = NoResult

\* the caller extends the candidate text by one piece
VAppend(p) ==
    /\ vphase = "build"
    /\ vpieces < MaxPieces
    /\ vsql' = vsql \o p
    /\ vpieces' = vpieces + 1
    /\ UNCHANGED <<vphase, vres, vres2>>
    /\ UNCHANGED <<evars, avars, svars>>

\* validator.validate(sql)
VValidate ==
    /\ vphase = "build"
    /\ vres' = validate(vsql)
    /\ vphase' = "validated"
    /\ UNCHANGED <<vsql, vpieces, vres2>>
    /\ UNCHANGED <<evars, avars, svars>>

\* validator.validate(validation.sanitized_sql)
VRevalidate ==
    /\ vphase = "validated"
    /\ vres.is_valid
    /\ vres2' = validate(vres.sanitized_sql.text)
    /\ vphase' = "revalidated"
    /\ UNCHANGED <<vsql, vpieces, vres>>
    /\ UNCHANGED <<evars, avars, svars>>

NextValidator ==
    \/ \E p \in Pieces : VAppend(p)
    \/ VValidate
    \/ VRevalidate

(***************************************************************************)
(* query_executor.py                                                       *)
(***************************************************************************)
HARD_ROW_LIMIT == 200
SQLITE_BUSY_TIMEOUT_MS == 5000

\* ExecutionResult.__init__: rows is the length of the list of rows
ExecutionResult(success, rows, rowCount, executionTimeMs, error) ==
    [success |-> success, rows |-> rows, row_count |-> rowCount,
     execution_time_ms |-> executionTimeMs, error |-> error]

\* str(e) of the errors the connection, the pragma, the statement, the cursor
\* or a fetch may raise
DbErrors == {"database is locked", "no such table: t"}
Vendors == {"sqlite", "postgresql"}
\* a cursor that delivers rows without end
Endless == -1
\* the sizes of the result set of a statement
ResultSizes == {0, 1, HARD_ROW_LIMIT - 1, HARD_ROW_LIMIT, HARD_ROW_LIMIT + 1,
                HARD_ROW_LIMIT + MaxExtraRows, Endless}

NoExecResult == ExecutionResult(FALSE, 0, 0, 0, NoError)

InitExecutor ==
    /\ epc = "idle"
    /\ evendor = "sqlite"
    /\ ebusy = 0
    /\ ecursor = 0
    /\ easked = 0
    /\ erows = 0
    /\ ehigh = 0
    /\ eclock = 0
    /\ eresult = NoExecResult
    /\ eraised = FALSE

\* time passes while a step runs
Elapse == \E dt \in 0..1 : eclock' = IF eclock + dt > MaxClock THEN eclock ELSE eclock + dt

\* an except clause that lets the error leave execute
ExceptHandler_Propagates(e) ==
    /\ Elapse
    /\ eraised' = TRUE
    /\ epc' = "done"
    /\ UNCHANGED eresult

\* lines 68-75: except Exception as e
ExceptHandler(e) ==
    /\ Elapse
    /\ eresult' = ExecutionResult(FALSE, 0, 0, eclock', SomeError(e, <<>>))
    /\ epc' = "done"
    /\ UNCHANGED eraised

\* line 29: start = time.time(), with the database the call meets
ExecCall ==
    /\ epc = "idle"
    /\ \E v \in Vendors : evendor' = v
    /\ epc' = "connect"
    /\ UNCHANGED <<ebusy, ecursor, easked, erows, ehigh, eclock, eresult, eraised>>
    /\ UNCHANGED <<vvars, avars, svars>>

\* line 31: conn = connections[self.DB_ALIAS]
ExecConnect ==
    /\ epc = "connect"
    /\ \/ /\ epc' = IF evendor = "sqlite" THEN "pragma" ELSE "cursor"
          /\ Elapse
          /\ UNCHANGED <<eresult, eraised>>
       \/ \E e \in DbErrors : ExceptHandler(e)
    /\ UNCHANGED <<evendor, ebusy, ecursor, easked, erows, ehigh>>
    /\ UNCHANGED <<vvars, avars, svars>>

\* lines 35-38: PRAGMA busy_timeout
ExecBusyTimeout ==
    /\ epc = "pragma"
    /\ \/ /\ ebusy' = SQLITE_BUSY_TIMEOUT_MS
          /\ epc' = "cursor"
          /\ Elapse
          /\ UNCHANGED <<eresult, eraised>>
       \/ /\ \E e \in DbErrors : ExceptHandler(e)
          /\ UNCHANGED ebusy
    /\ UNCHANGED <<evendor, ecursor, easked, erows, ehigh>>
    /\ UNCHANGED <<vvars, avars, svars>>

\* lines 40-42: with conn.cursor() as cursor: cursor.execute(sql); columns
ExecStatement ==
    /\ epc = "cursor"
    /\ \/ /\ \E n \in ResultSizes : ecursor' = n
          /\ epc' = "fetch"
          /\ Elapse
          /\ UNCHANGED <<eresult, eraised>>
       \/ /\ \E e \in DbErrors : ExceptHandler(e)
          /\ UNCHANGED ecursor
    /\ UNCHANGED <<evendor, ebusy, easked, erows, ehigh>>
    /\ UNCHANGED <<vvars, avars, svars>>

\* a fetch that always asks for HARD_ROW_LIMIT rows
FetchSize_Whole(held) == HARD_ROW_LIMIT

\* line 48: the size given to fetchmany
FetchSize(held) == HARD_ROW_LIMIT - held

\* cursor.fetchmany(size): at most size rows, none only when none is left; of
\* the sizes a driver may return the least and the greatest are taken
BatchSizes(size) ==
    IF ecursor = 0 \/ size <= 0 THEN {0}
    ELSE IF ecursor = Endless THEN {1, size}
    ELSE {1, IF ecursor < size THEN ecursor ELSE size}

\* a loop that fetches again after an empty batch
AfterBatch_Continue(k) == "fetch"

\* lines 49-51: if not batch: break; otherwise the rows are added and the
\* while condition is tested again
AfterBatch(k) == IF k = 0 THEN "return" ELSE "fetch"

\* lines 47-51: one turn of the while loop
ExecFetch ==
    /\ epc = "fetch"
    /\ \/ /\ erows < HARD_ROW_LIMIT
          /\ easked' = FetchSize(erows)
          /\ \E k \in BatchSizes(FetchSize(erows)) :
                /\ ecursor' = IF ecursor = Endless THEN Endless ELSE ecursor - k
                /\ erows' = erows + k
                /\ ehigh' = IF erows + k > ehigh THEN erows + k ELSE ehigh
                /\ epc' = AfterBatch(k)
          /\ Elapse
          /\ UNCHANGED <<eresult, eraised>>
       \/ /\ erows < HARD_ROW_LIMIT
          /\ easked' = FetchSize(erows)
          /\ \E e \in DbErrors : ExceptHandler(e)
          /\ UNCHANGED <<ecursor, erows, ehigh>>
       \/ /\ erows >= HARD_ROW_LIMIT
          /\ epc' = "return"
          /\ UNCHANGED <<ecursor, easked, erows, ehigh, eclock, eresult, eraised>>
    /\ UNCHANGED <<evendor, ebusy>>
    /\ UNCHANGED <<vvars, avars, svars>>

\* lines 53-66: elapsed, and the Success result
ExecReturn ==
    /\ epc = "return"
    /\ Elapse
    /\ eresult' = ExecutionResult(TRUE, erows, erows, eclock', NoError)
    /\ epc' = "done"
    /\ UNCHANGED <<evendor, ebusy, ecursor, easked, erows, ehigh, eraised>>
    /\ UNCHANGED <<vvars, avars, svars>>

\* the caller has the result; the executor is called again
ExecAgain ==
    /\ epc = "done"
    /\ ~eraised
    /\ epc' = "idle"
    /\ ebusy' = 0
    /\ ecursor' = 0
    /\ easked' = 0
    /\ erows' = 0
    /\ ehigh' = 0
    /\ eclock' = 0
    /\ eresult' = NoExecResult
    /\ UNCHANGED <<evendor, eraised>>
    /\ UNCHANGED <<vvars, avars, svars>>

NextExecutor ==
    \/ ExecCall
    \/ ExecConnect
    \/ ExecBusyTimeout
    \/ ExecStatement
    \/ ExecFetch
    \/ ExecReturn
    \/ ExecAgain

(***************************************************************************)
(* agent.py, views.py                                                      *)
(***************************************************************************)
MAX_TOOL_ITERATIONS == 5

\* a nullable integer column
NoInt == [set |-> FALSE, value |-> 0]
SomeInt(n) == [set |-> TRUE, value |-> n]

\* '...{}...'.format(arg)
Format(template, arg) == [template |-> template, arg |-> arg]

\* A list that only grows and is never read back by the code (the history
\* sent to the model, the rows of a table, the events given to the caller) is
\* kept as the number of its entries and the entries added since the last
\* request of the tool loop.
EmptyLog == [n |-> 0, recent |-> <<>>]
Logged(log, x) == [n |-> log.n + 1, recent |-> Append(log.recent, x)]
Window(log) == [n |-> log.n, recent |-> <<>>]

AgentResult(success, text, sqlUsed, rowCount, error) ==
    [success |-> success, response |-> text, sql_used |-> sqlUsed,
     row_count |-> rowCount, error |-> error]
NoAgentResult == AgentResult(FALSE, "", NoText, 0, NoError)

\* an entry of the message history
Message(role, content, toolCalls, toolCallId) ==
    [role |-> role, content |-> content, tool_calls |-> toolCalls, tool_call_id |-> toolCallId]

\* ChatMessage row
ChatMessage(role, content, status) == [role |-> role, content |-> content, status |-> status]

\* QueryAuditLog row
QueryAuditLog(generatedSql, rowCount, executionTimeMs, error) ==
    [generated_sql |-> generatedSql, row_count |-> rowCount,
     execution_time_ms |-> executionTimeMs, error |-> error]

\* a server-sent event
Event(type, payload) == [type |-> type, payload |-> payload]

\* calls made to the validator and to the executor
ValidateOp(call, sql, validation) == [op |-> "validate", call |-> call, sql |-> sql, result |-> validation]
ExecuteOp(call, sql, execution) == [op |-> "execute", call |-> call, sql |-> sql, result |-> execution]

\* SQL texts the model proposes
SqlSelect == PieceSelect
SqlDrop == PieceSelect \o <<";">> \o PieceDrop
ModelSqls == {SqlSelect, SqlDrop}

\* the text NO_QUERY, and the texts the model may answer the classification
\* request with: a query, nothing, NO_QUERY, or ' no_query.'
NO_QUERY == <<"N", "O", "_", "Q", "U", "E", "R", "Y">>
ClassifierReplies ==
    ModelSqls \cup {<<>>, NO_QUERY, <<" ", "n", "o", "_", "q", "u", "e", "r", "y", ".">>}

\* self.validator.validate on the texts the orchestrator and the view may
\* pass to it
validator_validate == [sql \in {Strip(c) : c \in ClassifierReplies} |-> validate(sql)]

\* tool_call.function.arguments: JSON with the key sql, or text that is not JSON
Arguments ==
    {[json |-> TRUE, sql |-> s] : s \in ModelSqls} \cup {[json |-> FALSE, sql |-> <<>>]}

ToolCallChoices ==
    {[name |-> "execute_sql", arguments |-> a] : a \in Arguments}
        \cup {[name |-> "describe_table", arguments |-> [json |-> TRUE, sql |-> <<>>]]}

\* response.choices[0] of a completion with at most the given number of tool calls
Completions(most) ==
    {[finish_reason |-> "tool_calls", content |-> "", tool_calls |-> cs] :
        cs \in UNION {[1..n -> ToolCallChoices] : n \in 1..most}}
    \cup {[finish_reason |-> "stop", content |-> "answer", tool_calls |-> <<>>],
          [finish_reason |-> "length", content |-> "answ", tool_calls |-> <<>>]}

\* str(e) of the errors a model request raises and of a json.loads failure
ModelErrors == {"Connection error."}
JsonError == "Expecting value: line 1 column 1 (char 0)"

\* the tool calls of a completion with the ids the model gave them, when it
\* has asked for so many calls before
WithIds(cs, before) ==
    [i \in 1..Len(cs) |->
        [id |-> before + i, name |-> cs[i].name, arguments |-> cs[i].arguments]]

\* what QueryExecutor.execute returns to the orchestrator
ExecOutcomes ==
    {ExecutionResult(TRUE, n, n, 0, NoError) : n \in 1..MaxRowCount}
        \cup {ExecutionResult(FALSE, 0, 0, 0, SomeError("database is locked", <<>>))}

InitialMessages ==
    Logged(Logged(EmptyLog, Message("system", "system prompt", <<>>, 0)),
           Message("user", "question", <<>>, 0))

SORRY == "Sorry, I could not process your question. Please try rephrasing it."

\* the ChatMessage rows a conversation may hold when a request arrives
PriorTurns ==
    [i \in 1..MaxPriorTurns |->
        IF i % 2 = 1 THEN ChatMessage("user", "earlier question", "null")
        ELSE ChatMessage("assistant", "earlier answer", "success")]
PriorHistories == {SubSeq(PriorTurns, 1, n) : n \in 0..MaxPriorTurns}

\* request.data, when the call is not an HTTP request
NoRequest == [message |-> <<>>, session_id |-> "none"]

InitAgent ==
    /\ flow = "idle"
    /\ session = FALSE
    /\ pc = "idle"
    /\ iterations = 0
    /\ tool_calls = <<>>
    /\ tc = 0
    /\ messages = EmptyLog
    /\ sql_used = NoText
    /\ row_count = 0
    /\ result = NoAgentResult
    /\ requests = 0
    /\ tool_choice = "none"
    /\ requested = 0
    /\ invocations = 0
    /\ oplog = EmptyLog
    /\ audits = EmptyLog
    /\ turns = <<>>
    /\ events = EmptyLog
    /\ full_response = <<>>
    /\ response = 0
    /\ conversations = 0
    /\ reply = "none"
    /\ history = <<>>
    /\ request = NoRequest
    /\ connected = TRUE

\* an orchestrator that swallows the exception and asks the model again
ServiceError_Retry(e, ev) ==
    /\ pc' = "loop"
    /\ events' = ev
    /\ UNCHANGED <<turns, result>>

\* run lines 278-291, stream_run lines 427-430: except Exception as e
ServiceError(e, ev) ==
    IF flow = "stream_run"
    THEN /\ events' = Logged(ev, Event("error", Format("Service error: {}", e)))
         /\ pc' = "done"
         /\ UNCHANGED <<turns, result>>
    ELSE /\ turns' = IF session
                     THEN Append(turns, ChatMessage("assistant", Format("Service error: {}", e), "failed"))
                     ELSE turns
         /\ result' = AgentResult(FALSE, Format("Service error: {}", e), NoText, 0, SomeError(e, <<>>))
         /\ pc' = IF flow = "post" THEN "respond" ELSE "done"
         /\ events' = ev

\* an orchestrator that answers with a success once the loop is exhausted
GiveUp_Success(ev) ==
    IF flow = "stream_run"
    THEN /\ events' = Logged(ev, Event("done", row_count))
         /\ pc' = "done"
         /\ UNCHANGED <<turns, result>>
    ELSE /\ turns' = IF session
                     THEN Append(turns, ChatMessage("assistant", SORRY, "success"))
                     ELSE turns
         /\ result' = AgentResult(TRUE, SORRY, sql_used, row_count, NoError)
         /\ pc' = IF flow = "post" THEN "respond" ELSE "done"
         /\ events' = ev

\* run lines 293-304, stream_run line 432: the code after the loop
GiveUp(ev) ==
    IF flow = "stream_run"
    THEN /\ events' = Logged(ev, Event("error", "Could not process your question. Please try rephrasing it."))
         /\ pc' = "done"
         /\ UNCHANGED <<turns, result>>
    ELSE /\ turns' = IF session
                     THEN Append(turns, ChatMessage("assistant", SORRY, "failed"))
                     ELSE turns
         /\ result' = AgentResult(FALSE, SORRY, NoText, 0,
                                  SomeError("Max iterations reached or unexpected finish reason", <<>>))
         /\ pc' = IF flow = "post" THEN "respond" ELSE "done"
         /\ events' = ev

\* an orchestrator that hands the text of the model to the executor
ExecutedSql_Raw(sql, validation) == sql

\* run line 222, stream_run line 361, views line 222: the argument of execute
ExecutedSql(sql, validation) == validation.sanitized_sql.text

\* a loop that adds the rows of every execution to its count
RowCountAfter_Sum(validation, r) ==
    IF validation.is_valid /\ r.success THEN row_count + r.row_count ELSE row_count

\* run line 224, stream_run line 363: row_count = result.row_count, in the
\* branch of a successful execution only
RowCountAfter(validation, r) ==
    IF validation.is_valid /\ r.success THEN r.row_count ELSE row_count

\* run lines 208-251, stream_run lines 350-387: validate, execute, audit and
\* the tool message of one execute_sql call
ProcessCall(tool_call) ==
    LET sql == tool_call.arguments.sql
        validation == validator_validate[sql]
    IN  \E r \in (IF validation.is_valid THEN ExecOutcomes ELSE {NoExecResult}) :
        LET tool_result ==
                IF ~validation.is_valid
                THEN Format("Validation error: {}. Please fix the SQL.", validation.error)
                ELSE IF r.success
                THEN Format("json.dumps(rows)", r.rows)
                ELSE Format("Query execution error: {}. Please fix the SQL.", r.error)
            record ==
                IF ~validation.is_valid
                THEN QueryAuditLog(sql, NoInt, NoInt, validation.error)
                ELSE IF r.success
                THEN QueryAuditLog(validation.sanitized_sql.text, SomeInt(r.row_count),
                                   SomeInt(r.execution_time_ms), NoError)
                ELSE QueryAuditLog(validation.sanitized_sql.text, NoInt, NoInt, r.error)
        IN  /\ invocations' = invocations + 1
            /\ oplog' = IF validation.is_valid
                        THEN Logged(Logged(oplog, ValidateOp(tool_call.id, sql, validation)),
                                    ExecuteOp(tool_call.id, ExecutedSql(sql, validation), r))
                        ELSE Logged(oplog, ValidateOp(tool_call.id, sql, validation))
            /\ audits' = IF session THEN Logged(audits, record) ELSE audits
            /\ row_count' = RowCountAfter(validation, r)
            /\ messages' = Logged(messages, Message("tool", tool_result, <<>>, tool_call.id))

\* a for loop that is left after its first tool call
AdvanceCall_LeaveEarly ==
    /\ pc' = "loop"
    /\ UNCHANGED tc

\* the for loop goes to the next tool call, or the while loop to its next turn
AdvanceCall ==
    /\ pc' = IF tc < Len(tool_calls) THEN "calls" ELSE "loop"
    /\ tc' = IF tc < Len(tool_calls) THEN tc + 1 ELSE tc

\* request.data.get('message', '') and request.data.get('session_id')
Questions == {<<>>, <<" ">>, <<"q">>}
SessionIds == {"none", "known", "unknown"}

\* agent.run(user_question, session)
RunCall ==
    /\ pc = "idle"
    /\ flow' = "run"
    /\ \E s \in BOOLEAN :
            /\ session' = s
            /\ \E h \in (IF s THEN PriorHistories ELSE {<<>>}) : history' = h
    /\ messages' = InitialMessages
    /\ sql_used' = NoText
    /\ row_count' = 0
    /\ iterations' = 0
    /\ pc' = "loop"
    /\ UNCHANGED <<requested, tool_calls, tc, result, requests, tool_choice, invocations, oplog, audits,
                   turns, events, full_response, response, conversations>>
    /\ UNCHANGED <<reply, request>>
    /\ UNCHANGED <<vvars, evars, svars, connected>>

\* input checks that test the message as sent, without strip()
AcceptRequest_NoStrip(question, session_id, accepted) ==
    IF question = <<>>
    THEN /\ response' = 400
         /\ pc' = "done"
         /\ UNCHANGED <<conversations, turns, history>>
    ELSE IF session_id = "unknown"
    THEN /\ response' = 404
         /\ pc' = "done"
         /\ UNCHANGED <<conversations, turns, history>>
    ELSE /\ conversations' = IF session_id = "none" THEN conversations + 1 ELSE conversations
         /\ \E h \in (IF session_id = "known" THEN PriorHistories ELSE {<<>>}) : history' = h
         /\ turns' = Append(turns, ChatMessage("user", Strip(question), "null"))
         /\ pc' = accepted
         /\ UNCHANGED response

\* views lines 38-61 and 100-117: the checks of the input, the conversation
\* and the user turn
AcceptRequest(question, session_id, accepted) ==
    IF Strip(question) = <<>>
    THEN /\ response' = 400
         /\ pc' = "done"
         /\ UNCHANGED <<conversations, turns, history>>
    ELSE IF session_id = "unknown"
    THEN /\ response' = 404
         /\ pc' = "done"
         /\ UNCHANGED <<conversations, turns, history>>
    ELSE /\ conversations' = IF session_id = "none" THEN conversations + 1 ELSE conversations
         /\ \E h \in (IF session_id = "known" THEN PriorHistories ELSE {<<>>}) : history' = h
         /\ turns' = Append(turns, ChatMessage("user", Strip(question), "null"))
         /\ pc' = accepted
         /\ UNCHANGED response

PostSession_Attached == TRUE

\* views line 65: agent.run(user_question=question), the session parameter of
\* run keeps its default None
PostSession == FALSE

\* ChatMessageView.post up to agent.run(user_question=question)
PostRequest ==
    /\ pc = "idle"
    /\ flow' = "post"
    /\ \E question \in Questions, session_id \in SessionIds :
            /\ request' = [message |-> question, session_id |-> session_id]
            /\ AcceptRequest(question, session_id, "loop")
    /\ session' = PostSession
    /\ messages' = IF pc' = "loop" THEN InitialMessages ELSE messages
    /\ sql_used' = NoText
    /\ row_count' = 0
    /\ iterations' = 0
    /\ UNCHANGED <<requested, tool_calls, tc, result, requests, tool_choice, invocations, oplog, audits,
                   events, full_response>>
    /\ UNCHANGED <<reply>>
    /\ UNCHANGED <<vvars, evars, svars, connected>>

\* agent.stream_run(question, session) up to its first yield
StreamRunCall ==
    /\ pc = "idle"
    /\ flow' = "stream_run"
    /\ session' = TRUE
    /\ \E h \in PriorHistories : history' = h
    /\ messages' = InitialMessages
    /\ row_count' = 0
    /\ iterations' = 0
    /\ events' = Logged(events, Event("status", "Analyzing your question..."))
    /\ pc' = "loop"
    /\ UNCHANGED <<requested, tool_calls, tc, sql_used, result, requests, tool_choice, invocations, oplog,
                   audits, turns, full_response, response, conversations>>
    /\ UNCHANGED <<reply, request>>
    /\ UNCHANGED <<vvars, evars, svars, connected>>

\* chat_stream up to the first yield of event_stream
ChatStreamRequest ==
    /\ pc = "idle"
    /\ flow' = "chat_stream"
    /\ \E question \in Questions, session_id \in SessionIds :
            /\ request' = [message |-> question, session_id |-> session_id]
            /\ AcceptRequest(question, session_id, "classify")
    /\ session' = (pc' = "classify")
    /\ events' = IF pc' = "classify"
                 THEN Logged(events, Event("status", "Analyzing your question..."))
                 ELSE events
    /\ UNCHANGED <<requested, iterations, tool_calls, tc, messages, sql_used, row_count, result, requests,
                   tool_choice, invocations, oplog, audits, full_response>>
    /\ UNCHANGED <<reply>>
    /\ UNCHANGED <<vvars, evars, svars, connected>>

\* a loop that asks the model again after a finish reason it does not know
UnexpectedFinish_Continue(ev) ==
    /\ pc' = "loop"
    /\ events' = ev
    /\ UNCHANGED <<turns, result>>

\* run lines 275-276, stream_run lines 424-425: else: break, which leaves the
\* loop for the code after it
UnexpectedFinish(ev) == GiveUp(ev)

\* a loop that leaves the use of the tool to the model in every request
ToolChoice_Auto(iteration) == "auto"

\* run line 187, stream_run line 329: the tool_choice of a request of the loop
ToolChoice(iteration) == IF iteration = 1 THEN "required" ELSE "auto"

\* run lines 179-198 and 254-276, stream_run lines 323-339 and 390-391,
\* 424-425: one turn of the while loop up to the handling of the tool calls
ModelRequest ==
    /\ pc = "loop"
    /\ iterations < MAX_TOOL_ITERATIONS
    /\ iterations' = iterations + 1
    /\ requests' = requests + 1
    /\ tool_choice' = ToolChoice(iterations + 1)
    /\ oplog' = Window(oplog)
    /\ audits' = Window(audits)
    /\ \/ \E e \in ModelErrors :
            /\ reply' = "raised"
            /\ ServiceError(e, Window(events))
            /\ UNCHANGED <<messages, tool_calls, tc, requested>>
       \/ \E choice \in Completions(iterations + 1 + MaxExtraCalls - requested) :
            /\ reply' = choice.finish_reason
            /\ LET calls == WithIds(choice.tool_calls, requested)
                   appended == Logged(Window(messages),
                                      Message("assistant", choice.content, calls, 0))
               IN  CASE choice.finish_reason = "tool_calls" ->
                        /\ messages' = appended
                        /\ tool_calls' = calls
                        /\ requested' = requested + Len(calls)
                        /\ tc' = 1
                        /\ pc' = "calls"
                        /\ events' = Window(events)
                        /\ UNCHANGED <<turns, result>>
                  [] choice.finish_reason = "stop" ->
                        IF flow = "stream_run"
                        THEN /\ events' = Logged(Window(events), Event("status", "Preparing response..."))
                             /\ pc' = "final"
                             /\ UNCHANGED <<messages, tool_calls, tc, requested, turns, result>>
                        ELSE /\ messages' = appended
                             /\ turns' = IF session
                                         THEN Append(turns, ChatMessage("assistant", choice.content, "success"))
                                         ELSE turns
                             /\ result' = AgentResult(TRUE, choice.content, sql_used, row_count, NoError)
                             /\ pc' = IF flow = "post" THEN "respond" ELSE "done"
                             /\ events' = Window(events)
                             /\ UNCHANGED <<tool_calls, tc, requested>>
                  [] OTHER ->
                        /\ messages' = IF flow = "stream_run" THEN messages ELSE appended
                        /\ UnexpectedFinish(Window(events))
                        /\ UNCHANGED <<tool_calls, tc, requested>>
    /\ UNCHANGED <<flow, session, sql_used, row_count, invocations, full_response, response,
                   conversations>>
    /\ UNCHANGED <<history, request>>
    /\ UNCHANGED <<vvars, evars, svars, connected>>

\* a loop that passes over a call whose arguments do not parse
ArgumentsError_Skips ==
    /\ AdvanceCall
    /\ UNCHANGED <<events, turns, result>>

\* run line 201, stream_run line 343: json.loads raises inside the try, and the
\* except clause of the loop takes it (run lines 278-291, stream_run 427-430)
ArgumentsError ==
    /\ ServiceError(JsonError, events)
    /\ UNCHANGED tc

\* run lines 199-252, stream_run lines 341-347: the for loop at one tool call
ToolCall ==
    /\ pc = "calls"
    /\ LET tool_call == tool_calls[tc]
       IN  IF tool_call.name # "execute_sql"
           THEN /\ AdvanceCall
                /\ UNCHANGED <<sql_used, invocations, oplog, audits, row_count, messages, events,
                               turns, result>>
           ELSE IF ~tool_call.arguments.json
           THEN /\ ArgumentsError
                /\ UNCHANGED <<sql_used, invocations, oplog, audits, row_count, messages>>
           ELSE IF flow = "stream_run"
           THEN /\ events' = Logged(events, Event("sql", tool_call.arguments.sql))
                /\ pc' = "yield_sql"
                /\ UNCHANGED <<tc, sql_used, invocations, oplog, audits, row_count, messages,
                               turns, result>>
           ELSE /\ sql_used' = SomeText(tool_call.arguments.sql)
                /\ ProcessCall(tool_call)
                /\ AdvanceCall
                /\ UNCHANGED <<events, turns, result>>
    /\ UNCHANGED <<requested, flow, session, iterations, tool_calls, requests, tool_choice, full_response,
                   response, conversations>>
    /\ UNCHANGED <<reply, history, request>>
    /\ UNCHANGED <<vvars, evars, svars, connected>>

\* a generator that goes on to the query without the status event
YieldFetching_Silent ==
    /\ pc = "yield_sql"
    /\ UNCHANGED events
    /\ pc' = "yield_fetching"
    /\ UNCHANGED <<requested, flow, session, iterations, tool_calls, tc, messages, sql_used, row_count,
                   result, requests, tool_choice, invocations, oplog, audits, turns,
                   full_response, response, conversations>>
    /\ UNCHANGED <<reply, history, request>>
    /\ UNCHANGED <<vvars, evars, svars, connected>>

\* stream_run line 348, views line 220: the status event before the query
YieldFetching ==
    /\ pc = "yield_sql"
    /\ events' = Logged(events, Event("status", "Fetching data..."))
    /\ pc' = "yield_fetching"
    /\ UNCHANGED <<requested, flow, session, iterations, tool_calls, tc, messages, sql_used, row_count,
                   result, requests, tool_choice, invocations, oplog, audits, turns,
                   full_response, response, conversations>>
    /\ UNCHANGED <<reply, history, request>>
    /\ UNCHANGED <<vvars, evars, svars, connected>>

\* stream_run lines 350-387
StreamProcess ==
    /\ pc = "yield_fetching"
    /\ flow = "stream_run"
    /\ ProcessCall(tool_calls[tc])
    /\ AdvanceCall
    /\ UNCHANGED <<requested, flow, session, iterations, tool_calls, sql_used, result, requests,
                   tool_choice, turns, events, full_response, response, conversations>>
    /\ UNCHANGED <<reply, history, request>>
    /\ UNCHANGED <<vvars, evars, svars, connected>>

\* a loop that is left at the ceiling with nothing returned and nothing yielded
LoopExit_NoOutcome ==
    /\ pc = "loop"
    /\ iterations >= MAX_TOOL_ITERATIONS
    /\ pc' = "done"
    /\ UNCHANGED <<requested, flow, session, iterations, tool_calls, tc, messages, sql_used, row_count,
                   result, requests, tool_choice, invocations, oplog, audits, turns, events,
                   full_response, response, conversations>>
    /\ UNCHANGED <<reply, history, request>>
    /\ UNCHANGED <<vvars, evars, svars, connected>>

\* the while condition is false: run lines 293-304, stream_run line 432
LoopExit ==
    /\ pc = "loop"
    /\ iterations >= MAX_TOOL_ITERATIONS
    /\ GiveUp(events)
    /\ UNCHANGED <<requested, flow, session, iterations, tool_calls, tc, messages, sql_used, row_count,
                   requests, tool_choice, invocations, oplog, audits, full_response, response,
                   conversations>>
    /\ UNCHANGED <<reply, history, request>>
    /\ UNCHANGED <<vvars, evars, svars, connected>>

\* an except clause that yields its event and, without a return, goes on to the
\* yield after the loop
StreamError_NoReturn(e) ==
    IF flow = "stream_run"
    THEN /\ events' = Logged(Logged(events, Event("error", Format("Service error: {}", e))),
                             Event("error", "Could not process your question. Please try rephrasing it."))
         /\ pc' = "done"
         /\ UNCHANGED <<turns, result>>
    ELSE /\ pc' = "crashed"
         /\ UNCHANGED <<events, turns, result>>

\* an exception in the streaming part: caught in stream_run (lines 427-430),
\* not caught in event_stream
StreamError(e) ==
    IF flow = "stream_run"
    THEN ServiceError(e, events)
    ELSE /\ pc' = "crashed"
         /\ UNCHANGED <<events, turns, result>>

\* stream_run lines 393-400, views lines 171-187 and 255-271: the request
\* with stream=True
FinalRequest ==
    /\ pc = "final"
    /\ requests' = requests + 1
    /\ tool_choice' = "none"
    /\ \/ /\ reply' = "stream"
          /\ pc' = "chunks"
          /\ full_response' = <<>>
          /\ UNCHANGED <<events, turns, result>>
       \/ /\ reply' = "raised"
          /\ \E e \in ModelErrors : StreamError(e)
          /\ UNCHANGED full_response
    /\ UNCHANGED <<requested, flow, session, iterations, tool_calls, tc, messages, sql_used, row_count,
                   invocations, oplog, audits, response, conversations>>
    /\ UNCHANGED <<history, request>>
    /\ UNCHANGED <<vvars, evars, svars, connected>>

\* chunk.choices[0].delta.content: no text, or a piece of the answer
Deltas == {<<>>, <<"a">>, <<"b", "c">>}

\* ''.join(full_response)
RECURSIVE Join(_)
Join(parts) == IF parts = <<>> THEN <<>> ELSE Head(parts) \o Join(Tail(parts))

\* a chunk loop that saves the text received so far with every chunk
StreamChunk_Persisting ==
    /\ pc = "chunks"
    /\ \/ /\ Len(full_response) < MaxChunks
          /\ \E delta \in Deltas :
                IF delta # <<>>
                THEN /\ full_response' = Append(full_response, delta)
                     /\ events' = Logged(events, Event("chunk", delta))
                     /\ turns' = Append(turns, ChatMessage("assistant", Join(full_response'), "success"))
                ELSE UNCHANGED <<full_response, events, turns>>
          /\ UNCHANGED <<pc, result, reply>>
       \/ /\ reply' = "raised"
          /\ \E e \in ModelErrors : StreamError(e)
          /\ UNCHANGED full_response
    /\ UNCHANGED <<requested, flow, session, iterations, tool_calls, tc, messages, sql_used, row_count,
                   requests, tool_choice, invocations, oplog, audits, response, conversations>>
    /\ UNCHANGED <<history, request>>
    /\ UNCHANGED <<vvars, evars, svars, connected>>

\* stream_run lines 402-406, views lines 188-192 and 273-277: one chunk
StreamChunk ==
    /\ pc = "chunks"
    /\ \/ /\ Len(full_response) < MaxChunks
          /\ \E delta \in Deltas :
                IF delta # <<>>
                THEN /\ full_response' = Append(full_response, delta)
                     /\ events' = Logged(events, Event("chunk", delta))
                ELSE UNCHANGED <<full_response, events>>
          /\ UNCHANGED <<pc, turns, result, reply>>
       \/ /\ reply' = "raised"
          /\ \E e \in ModelErrors : StreamError(e)
          /\ UNCHANGED full_response
    /\ UNCHANGED <<requested, flow, session, iterations, tool_calls, tc, messages, sql_used, row_count,
                   requests, tool_choice, invocations, oplog, audits, response, conversations>>
    /\ UNCHANGED <<history, request>>
    /\ UNCHANGED <<vvars, evars, svars, connected>>

\* stream_run lines 408-422, views lines 194-206 and 280-292
StreamFinish ==
    /\ pc = "chunks"
    /\ turns' = Append(turns, ChatMessage("assistant", Join(full_response), "success"))
    /\ events' = Logged(events, Event("done", IF flow = "chat_stream" /\ ~sql_used.set
                                              THEN 0 ELSE row_count))
    /\ pc' = "done"
    /\ UNCHANGED <<requested, flow, session, iterations, tool_calls, tc, messages, sql_used, row_count,
                   result, requests, tool_choice, invocations, oplog, audits, full_response,
                   response, conversations>>
    /\ UNCHANGED <<reply, history, request>>
    /\ UNCHANGED <<vvars, evars, svars, connected>>

\* a classification that takes no answer for conversational
Conversational_Never(sql) == FALSE

\* views line 168: sql.upper().startswith('NO_QUERY')
Conversational(sql) == StartsWith(Upper(sql), NO_QUERY)

\* views lines 128-217: the classification request and the validation
Classify ==
    /\ pc = "classify"
    /\ requests' = requests + 1
    /\ tool_choice' = "none"
    /\ \/ /\ reply' = "raised"
          /\ \E e \in ModelErrors : StreamError(e)
          /\ UNCHANGED <<sql_used, oplog, messages>>
       \/ \E content \in ClassifierReplies :
            LET sql == Strip(content)
            IN  /\ reply' = "text"
                /\ messages' = Logged(messages, Message("assistant", content, <<>>, 0))
                /\ IF Conversational(sql)
                   THEN /\ events' = Logged(events, Event("status", "Responding..."))
                        /\ pc' = "final"
                        /\ UNCHANGED <<sql_used, oplog, turns, result>>
                   ELSE LET validation == validator_validate[sql]
                        IN  /\ sql_used' = SomeText(sql)
                            /\ oplog' = Logged(oplog, ValidateOp(0, sql, validation))
                            /\ events' = IF validation.is_valid
                                         THEN Logged(events, Event("sql", validation.sanitized_sql.text))
                                         ELSE Logged(events,
                                                     Event("error", "Could not generate a valid query."))
                            /\ pc' = IF validation.is_valid THEN "yield_sql" ELSE "done"
                            /\ UNCHANGED <<turns, result>>
    /\ UNCHANGED <<requested, flow, session, iterations, tool_calls, tc, row_count, invocations,
                   audits, full_response, response, conversations>>
    /\ UNCHANGED <<history, request>>
    /\ UNCHANGED <<vvars, evars, svars, connected>>

\* views lines 222-252
ExecuteQuery ==
    /\ pc = "yield_fetching"
    /\ flow = "chat_stream"
    /\ LET sql == sql_used.text
           validation == validator_validate[sql]
       IN  \E r \in ExecOutcomes :
            /\ oplog' = Logged(oplog, ExecuteOp(0, ExecutedSql(sql, validation), r))
            /\ IF r.success
               THEN /\ row_count' = r.row_count
                    /\ audits' = Logged(audits, QueryAuditLog(sql, SomeInt(r.row_count),
                                                            SomeInt(r.execution_time_ms), NoError))
                    /\ events' = Logged(events, Event("status", "Preparing response..."))
                    /\ pc' = "final"
                    /\ UNCHANGED turns
               ELSE /\ audits' = Logged(audits, QueryAuditLog(sql, NoInt, NoInt, r.error))
                    /\ turns' = Append(turns, ChatMessage("assistant",
                            "Sorry, I couldn't retrieve the data. Please try rephrasing your question.",
                            "failed"))
                    /\ events' = Logged(events, Event("error", Format("Query execution failed: {}", r.error)))
                    /\ pc' = "done"
                    /\ UNCHANGED row_count
    /\ UNCHANGED <<requested, flow, session, iterations, tool_calls, tc, messages, sql_used, result, requests,
                   tool_choice, invocations, full_response, response, conversations>>
    /\ UNCHANGED <<reply, history, request>>
    /\ UNCHANGED <<vvars, evars, svars, connected>>

\* views lines 68-92: the audit record, the assistant turn and the response
PostRespond ==
    /\ pc = "respond"
    /\ audits' = Logged(audits, QueryAuditLog(IF result.sql_used.set THEN result.sql_used.text ELSE <<>>,
                                            SomeInt(result.row_count), NoInt, result.error))
    /\ turns' = Append(turns, ChatMessage("assistant", result.response,
                                          IF result.success THEN "success" ELSE "failed"))
    /\ response' = 200
    /\ pc' = "done"
    /\ UNCHANGED <<requested, flow, session, iterations, tool_calls, tc, messages, sql_used, row_count,
                   result, requests, tool_choice, invocations, oplog, events, full_response,
                   conversations>>
    /\ UNCHANGED <<reply, history, request>>
    /\ UNCHANGED <<vvars, evars, svars, connected>>

Next ==
    \/ RunCall
    \/ PostRequest
    \/ StreamRunCall
    \/ ChatStreamRequest
    \/ ModelRequest
    \/ ToolCall
    \/ YieldFetching
    \/ StreamProcess
    \/ LoopExit
    \/ FinalRequest
    \/ StreamChunk
    \/ StreamFinish
    \/ Classify
    \/ ExecuteQuery
    \/ PostRespond

(***************************************************************************)
(* stream_run read by a caller that may go away. The generator runs only   *)
(* when its consumer asks for the next event; the consumer writes each     *)
(* event to the caller and, when the caller has gone, closes the generator *)
(* at the yield it is parked at.                                           *)
(***************************************************************************)
\* the generator is parked at a yield: the event yielded last is being written
Suspended ==
    \/ pc = "loop" /\ iterations = 0
    \/ pc \in {"yield_sql", "yield_fetching", "final"}
    \/ pc = "chunks" /\ events.recent # <<>> /\ events.recent[Len(events.recent)].type = "chunk"

\* next(): the consumer has written the event and asks for the next one
Resumed == connected \/ ~Suspended

\* the caller closes the connection
Disconnect ==
    /\ flow = "stream_run"
    /\ pc \notin {"idle", "done", "closed"}
    /\ connected
    /\ connected' = FALSE
    /\ UNCHANGED <<flow, session, pc, iterations, tool_calls, tc, messages, sql_used, row_count, result,
                   requests, tool_choice, requested, invocations, oplog, audits, turns, events,
                   full_response, response, conversations, reply, history, request>>
    /\ UNCHANGED <<vvars, evars, svars>>

\* the write of the event fails and the consumer closes the generator:
\* GeneratorExit is raised at the yield, and except Exception (stream_run
\* line 427) does not catch it
Close ==
    /\ flow = "stream_run"
    /\ ~connected
    /\ Suspended
    /\ pc' = "closed"
    /\ UNCHANGED <<flow, session, iterations, tool_calls, tc, messages, sql_used, row_count, result,
                   requests, tool_choice, requested, invocations, oplog, audits, turns, events,
                   full_response, response, conversations, reply, history, request, connected>>
    /\ UNCHANGED <<vvars, evars, svars>>

NextStream ==
    \/ StreamRunCall
    \/ Resumed /\ ModelRequest
    \/ Resumed /\ ToolCall
    \/ Resumed /\ YieldFetching
    \/ Resumed /\ StreamProcess
    \/ Resumed /\ LoopExit
    \/ Resumed /\ FinalRequest
    \/ Resumed /\ StreamChunk
    \/ Resumed /\ StreamFinish
    \/ Disconnect
    \/ Close

(***************************************************************************)
(* SchemaExtractor (services/schema_extractor.py): the schema text and     *)
(* its cache entry, read and written by requests that run concurrently.    *)
(***************************************************************************)
CACHE_TTL == 3600

\* the seconds by which the clock advances in one step: half the time an
\* entry lives
TickSeconds == CACHE_TTL \div 2

\* the threads that serve requests
Callers == {"t1", "t2"}

EXCLUDED_APPS == {"admin", "auth", "contenttypes", "sessions", "chat"}

\* apps.get_models(): a model of an excluded app and the models of the sales app
Models ==
    << [app_label |-> "chat", db_table |-> "chat_session"],
       [app_label |-> "sales", db_table |-> "sales_product"],
       [app_label |-> "sales", db_table |-> "sales_order"],
       [app_label |-> "sales", db_table |-> "sales_order_item"] >>

\* _describe_model: the paragraph of a model, begun by its table name
DescribeModel(model) == [template |-> "Table: {}", arg |-> model.db_table]

\* _build_schema lines 51-55: parts when the loop has passed n models
RECURSIVE Parts(_)
Parts(n) ==
    IF n = 0 THEN <<>>
    ELSE IF Models[n].app_label \in EXCLUDED_APPS THEN Parts(n - 1)
    ELSE Append(Parts(n - 1), DescribeModel(Models[n]))

\* a text is held as the sequence of its paragraphs; the empty text
NoSchema == <<>>

\* _build_schema(): the paragraphs of all models that are not excluded
SchemaText == Parts(Len(Models))

\* a cache entry; None
NoEntry == [set |-> FALSE, value |-> NoSchema, expires |-> 0]
Entry(value, expires) == [set |-> TRUE, value |-> value, expires |-> expires]

\* a record of a call of get_schema that has returned
\* unbroken: no invalidation and no expiry since the call began
NoCall == [set |-> FALSE, text |-> NoSchema, built |-> FALSE, unbroken |-> FALSE]
Call(text, didBuild, unbroken) ==
    [set |-> TRUE, text |-> text, built |-> didBuild, unbroken |-> unbroken]

\* fresh: the call is the first after an invalidate() that ran with no call in
\* progress; prev: the call that had returned last when this one began
NoStart == [unbroken |-> FALSE, fresh |-> FALSE, prev |-> NoCall]
NoLast == [call |-> NoCall, prev |-> NoCall, fresh |-> FALSE]

\* an invalidation or an expiry: the calls on record are no longer unbroken
Broken(call) == [call EXCEPT !.unbroken = FALSE]
BreakStarted ==
    [p \in Callers |-> [started[p] EXCEPT !.unbroken = FALSE, !.prev = Broken(started[p].prev)]]
BreakLast == [last EXCEPT !.call = Broken(last.call), !.prev = Broken(last.prev)]

InitSchema ==
    /\ cache = NoEntry
    /\ now = 0
    /\ spc = [p \in Callers |-> "idle"]
    /\ cached = [p \in Callers |-> NoEntry]
    /\ scanned = [p \in Callers |-> 0]
    /\ schema = [p \in Callers |-> NoSchema]
    /\ returned = [p \in Callers |-> NoSchema]
    /\ invalidations = 0
    /\ builds = 0
    /\ started = [p \in Callers |-> NoStart]
    /\ last = NoLast
    /\ quiet = FALSE

\* LocMemCache._has_expired
HasExpired(entry, time) == entry.expires <= time

\* cache.get(self.CACHE_KEY): the value, or None when there is no entry or it
\* has expired
CacheGet(entry, time) ==
    IF entry.set /\ ~HasExpired(entry, time) THEN entry ELSE NoEntry

\* a test of the cached value that never finds one
Truthy_Never(value) == FALSE

\* if cached: None and the empty text are false
Truthy(value) == value.set /\ value.value # NoSchema

\* the call of p has returned the text
Returned(p, text, didBuild) ==
    /\ returned' = [returned EXCEPT ![p] = text]
    /\ last' = [call |-> Call(text, didBuild, started'[p].unbroken), prev |-> started'[p].prev,
                fresh |-> started'[p].fresh]
    /\ spc' = [spc EXCEPT ![p] = "idle"]

\* get_schema lines 37-41: the lookup, and the return of the cached text
GetSchema(p) ==
    /\ spc[p] = "idle"
    /\ cached' = [cached EXCEPT ![p] = CacheGet(cache, now)]
    /\ cache' = CacheGet(cache, now)
    /\ started' = [started EXCEPT ![p] = [unbroken |-> TRUE, fresh |-> quiet, prev |-> last.call]]
    /\ quiet' = FALSE
    /\ IF Truthy(cached'[p])
       THEN Returned(p, cached'[p].value, FALSE)
       ELSE /\ spc' = [spc EXCEPT ![p] = "build"]
            /\ UNCHANGED <<returned, last>>
    /\ UNCHANGED <<now, scanned, schema, invalidations, builds>>
    /\ UNCHANGED <<vvars, evars, avars>>

\* _build_schema lines 52-55: one turn of the loop over the models
DescribeNext(p) ==
    /\ spc[p] = "build"
    /\ scanned[p] < Len(Models)
    /\ scanned' = [scanned EXCEPT ![p] = scanned[p] + 1]
    /\ UNCHANGED <<cache, now, spc, cached, schema, returned, invalidations, builds, started, last,
                   quiet>>
    /\ UNCHANGED <<vvars, evars, avars>>

\* a _build_schema that may return from inside its loop
BuildSchema_ReturnsEarly(p) ==
    /\ spc[p] = "build"
    /\ schema' = [schema EXCEPT ![p] = Parts(scanned[p])]
    /\ scanned' = [scanned EXCEPT ![p] = 0]
    /\ builds' = builds + 1
    /\ spc' = [spc EXCEPT ![p] = "store"]
    /\ UNCHANGED <<cache, now, cached, returned, invalidations, started, last, quiet>>
    /\ UNCHANGED <<vvars, evars, avars>>

\* _build_schema line 56 and get_schema line 42: the loop is over, the parts
\* are joined and schema is the text
BuildSchema(p) ==
    /\ spc[p] = "build"
    /\ scanned[p] = Len(Models)
    /\ schema' = [schema EXCEPT ![p] = Parts(scanned[p])]
    /\ scanned' = [scanned EXCEPT ![p] = 0]
    /\ builds' = builds + 1
    /\ spc' = [spc EXCEPT ![p] = "store"]
    /\ UNCHANGED <<cache, now, cached, returned, invalidations, started, last, quiet>>
    /\ UNCHANGED <<vvars, evars, avars>>

\* get_schema lines 43-45: cache.set and the return of the built text
StoreSchema(p) ==
    /\ spc[p] = "store"
    /\ cache' = Entry(schema[p], now + CACHE_TTL)
    /\ UNCHANGED started
    /\ Returned(p, schema[p], TRUE)
    /\ UNCHANGED <<now, cached, scanned, schema, invalidations, builds, quiet>>
    /\ UNCHANGED <<vvars, evars, avars>>

\* invalidate(): cache.delete(self.CACHE_KEY)
Invalidate ==
    /\ invalidations < MaxInvalidations
    /\ cache' = NoEntry
    /\ invalidations' = invalidations + 1
    /\ builds' = 0
    /\ started' = BreakStarted
    /\ last' = BreakLast
    /\ quiet' = \A p \in Callers : spc[p] = "idle"
    /\ UNCHANGED <<now, spc, cached, scanned, schema, returned>>
    /\ UNCHANGED <<vvars, evars, avars>>

\* time passes; the entry may reach its expiry
Tick ==
    /\ now < MaxTicks * TickSeconds
    /\ now' = now + TickSeconds
    /\ IF cache.set /\ ~HasExpired(cache, now) /\ HasExpired(cache, now')
       THEN /\ builds' = 0
            /\ started' = BreakStarted
            /\ last' = BreakLast
       ELSE UNCHANGED <<builds, started, last>>
    /\ UNCHANGED <<cache, spc, cached, scanned, schema, returned, invalidations, quiet>>
    /\ UNCHANGED <<vvars, evars, avars>>

NextSchema ==
    \/ \E p \in Callers : GetSchema(p)
    \/ \E p \in Callers : DescribeNext(p)
    \/ \E p \in Callers : BuildSchema(p)
    \/ \E p \in Callers : StoreSchema(p)
    \/ Invalidate
    \/ Tick

vars == <<vvars, evars, avars, svars>>

Init == InitValidator /\ InitExecutor /\ InitAgent /\ InitSchema

SpecValidator == Init /\ [][NextValidator]_vars

SpecExecutor == Init /\ [][NextExecutor]_vars

\* the step ends in the except clause of execute
DriverRaises == eresult'.error.set /\ ~eresult.error.set

\* execute is sequential code run by one thread: a step that can be taken
\* without an error of the driver is taken in the end; an error is never owed
SpecExecutorLive == Init /\ [][NextExecutor]_vars /\ WF_vars(NextExecutor /\ ~DriverRaises)

Spec == Init /\ [][Next]_vars

SpecSchema == Init /\ [][NextSchema]_vars

SpecStream == Init /\ [][NextStream]_vars

\* the handlers are sequential code run by one thread to its return: a step
\* that can be taken is taken (each request to the model returns or raises)
SpecLive == Init /\ [][Next]_vars /\ WF_vars(Next)

(***************************************************************************)
(* Properties of SQLValidator.validate, checked under SpecValidator.       *)
(***************************************************************************)
Validated == vphase \in {"validated", "revalidated"}

\* t begins, case-insensitively, with the keyword SELECT
BeginsWithSelect(t) ==
    Len(t) >= 6 /\ \A i \in 1..6 : t[i] \in {SELECT[i], LowerCase[CHOOSE k \in 1..26 : UpperCase[k] = SELECT[i]]}

\* the whole words of t, upper-cased: the runs of word characters with no
\* word character before them and none after them
WholeWords(t) ==
    LET up == Upper(t)
        starts == {i \in 1..Len(up) : IsWord(up[i]) /\ (i = 1 \/ ~IsWord(up[i - 1]))}
    IN  {SubSeq(up, i, Scan(up, i, WordChars) - 1) : i \in starts}

\* the blocklisted keywords that occur in t as whole words, in any letter case
DangerousWords(t) == WholeWords(t) \cap DANGEROUS_KEYWORDS

\* the values of the LIMIT clauses of s, from left to right
RECURSIVE LimitValues(_)
LimitValues(s) ==
    LET found == LimitMatches(s)
    IN  IF found = {} THEN <<>>
        ELSE LET m == LimitMatchAt(s, Min(found))
             IN  <<ParseInt(m.digits)>> \o LimitValues(From(s, m.end + 1))

\* C2: a text whose cleaned form (whitespace trimmed, trailing terminators
\* removed, code fences stripped) does not begin with SELECT, in any letter
\* case, is rejected.
C2_NonSelectIsInvalid ==
    (Validated /\ ~BeginsWithSelect(Clean(vsql))) => ~vres.is_valid

\* a rejected text that mentions SELECT, but not at its beginning, and holds
\* no blocklisted keyword
C2_Witness ==
    /\ vphase = "validated"
    /\ ~BeginsWithSelect(Clean(vsql))
    /\ \E i \in 2..Len(vsql) : BeginsWithSelect(From(vsql, i))
    /\ DangerousWords(vsql) = {}
    /\ ~vres.is_valid

\* C3 as stated: every text that holds a blocklisted keyword as a whole word
\* is rejected with a reason that names a blocklisted keyword of the text.
C3_KeywordNamedForEveryText ==
    (Validated /\ DangerousWords(vsql) # {}) =>
        /\ ~vres.is_valid
        /\ vres.error.msg = "Forbidden keyword: {}"
        /\ vres.error.arg \in DangerousWords(vsql)

\* C3 amended: a text whose cleaned form holds a blocklisted keyword as a
\* whole word is rejected, and when the cleaned form begins with SELECT the
\* reason names a blocklisted keyword of the text.
C3_KeywordRejected ==
    (Validated /\ DangerousWords(Clean(vsql)) # {}) =>
        /\ ~vres.is_valid
        /\ BeginsWithSelect(Clean(vsql)) =>
               /\ vres.error.msg = "Forbidden keyword: {}"
               /\ vres.error.arg \in DangerousWords(vsql)

\* a SELECT text with a blocklisted keyword after a terminator, rejected
\* with the keyword named
C3_Witness ==
    /\ vphase = "validated"
    /\ BeginsWithSelect(Clean(vsql))
    /\ <<"D", "R", "O", "P">> \in WholeWords(Clean(vsql))
    /\ \E i \in 1..Len(vsql) : vsql[i] = ";"
    /\ ~vres.is_valid
    /\ vres.error.arg = <<"D", "R", "O", "P">>

\* C4: the sanitized SQL of a Valid result holds exactly one LIMIT clause,
\* whose value is at most MAX_ROWS.
C4_ExactlyOneBoundedLimit ==
    (Validated /\ vres.is_valid) =>
        LET values == LimitValues(vres.sanitized_sql.text)
        IN  Len(values) = 1 /\ values[1] <= MAX_ROWS

\* C5: each LIMIT clause of a valid text is replaced by LIMIT MAX_ROWS when
\* its value exceeds MAX_ROWS and keeps its value otherwise.
C5_LimitClampedOrPreserved ==
    (Validated /\ vres.is_valid /\ LimitValues(Clean(vsql)) # <<>>) =>
        LET ins == LimitValues(Clean(vsql))
        IN  LimitValues(vres.sanitized_sql.text) =
                [k \in 1..Len(ins) |-> IF ins[k] > MAX_ROWS THEN MAX_ROWS ELSE ins[k]]

\* C6: the sanitized SQL of a valid text with no LIMIT clause is the cleaned
\* text followed by " LIMIT 200".
C6_LimitAppended ==
    (Validated /\ vres.is_valid /\ LimitValues(Clean(vsql)) = <<>>) =>
        vres.sanitized_sql.text =
            Clean(vsql) \o <<" ", "L", "I", "M", "I", "T", " ", "2", "0", "0">>

\* a fenced, terminated SELECT with no LIMIT clause has been validated
C6_Witness ==
    /\ vphase = "validated"
    /\ vres.is_valid
    /\ LimitValues(Clean(vsql)) = <<>>
    /\ Clean(vsql) # vsql
    /\ EndsWith(vres.sanitized_sql.text, <<"T", " ", "2", "0", "0">>)

\* C7: validating the sanitized SQL of a Valid result again gives a Valid
\* result with the same sanitized SQL.
C7_Idempotent ==
    vphase = "revalidated" =>
        /\ vres2.is_valid
        /\ vres2.sanitized_sql = vres.sanitized_sql

(***************************************************************************)
(* Properties of QueryExecutor.execute, checked under SpecExecutor.        *)
(***************************************************************************)
\* C8: a successful call reports as row_count the number of rows it returns,
\* and that number is at most HARD_ROW_LIMIT, whatever the cursor could
\* deliver.
C8_RowCountBounded ==
    (epc = "done" /\ ~eraised /\ eresult.success) =>
        /\ eresult.row_count = eresult.rows
        /\ eresult.rows = erows
        /\ eresult.row_count <= 200

\* a call on a result set larger than the ceiling has returned 200 rows
C8_Witness ==
    /\ epc = "done"
    /\ eresult.success
    /\ eresult.row_count = 200
    /\ ecursor # 0

\* C9: no exception leaves execute; after an error the value returned is a
\* Failure with the error text and the elapsed time set and no rows.
C9_NeverRaises ==
    /\ ~eraised
    /\ (epc = "done" /\ ~eresult.success) =>
           /\ eresult.error.set
           /\ eresult.error.msg \in DbErrors
           /\ eresult.execution_time_ms = eclock
           /\ eresult.rows = 0
           /\ eresult.row_count = 0
    /\ (epc = "done" /\ eresult.success) => ~eresult.error.set

\* a fetch failed after rows had been accumulated, and a Failure came back
C9_Witness ==
    /\ epc = "done"
    /\ ~eresult.success
    /\ erows > 0
    /\ eresult.error.msg = "database is locked"

\* the while loop of execute is at its test, with HARD_ROW_LIMIT rows or more
\* accumulated
LimitReached == epc = "fetch" /\ erows >= HARD_ROW_LIMIT

\* this step calls fetchmany
Fetches == epc = "fetch" /\ erows < HARD_ROW_LIMIT

\* C30: every fetchmany of the loop asks for at least one row and for no more
\* than HARD_ROW_LIMIT minus the rows accumulated, and gets no more than it
\* asked for; the loop is left without a further fetch once HARD_ROW_LIMIT rows
\* are accumulated, and at once after an empty batch; it goes on only with more
\* rows than before, so it is left in the end, also on a cursor that delivers
\* rows without end; and never more than HARD_ROW_LIMIT rows are held.
C30_FetchLoopBounded ==
    /\ [](erows <= HARD_ROW_LIMIT /\ ehigh <= HARD_ROW_LIMIT)
    /\ [][Fetches =>
            /\ easked' >= 1
            /\ easked' <= HARD_ROW_LIMIT - erows
            /\ erows' - erows <= easked'
            /\ erows' = erows => epc' # "fetch"
            /\ epc' = "fetch" => erows' > erows]_vars
    /\ [][LimitReached => (epc' = "return" /\ easked' = easked /\ erows' = erows)]_vars
    /\ (epc = "fetch") ~> (epc # "fetch")

\* the loop has stopped at the ceiling on an endless cursor, after more than
\* one batch
C30_Witness ==
    /\ epc = "return"
    /\ ecursor = Endless
    /\ erows = HARD_ROW_LIMIT
    /\ easked < HARD_ROW_LIMIT

(***************************************************************************)
(* Properties of the orchestrator and the views, checked under Spec.       *)
(***************************************************************************)
\* C1: run, stream_run and the chat_stream view call the executor only with
\* the sanitized SQL of a Valid validation of the same candidate, made just
\* before; a candidate whose validation is Invalid is never executed.
C1_ExecuteOnlySanitized ==
    \A i \in 1..Len(oplog.recent) :
        LET o == oplog.recent[i]
        IN  /\ o.op = "execute" =>
                /\ i > 1
                /\ oplog.recent[i - 1].op = "validate"
                /\ oplog.recent[i - 1].call = o.call
                /\ oplog.recent[i - 1].result = validator_validate[oplog.recent[i - 1].sql]
                /\ oplog.recent[i - 1].result.is_valid
                /\ oplog.recent[i - 1].result.sanitized_sql = SomeText(o.sql)
            /\ (o.op = "validate" /\ ~o.result.is_valid) =>
                \A j \in 1..Len(oplog.recent) :
                    ~(oplog.recent[j].op = "execute" /\ oplog.recent[j].call = o.call)

\* one completion asked for a forbidden statement and for a SELECT: the
\* first was refused, the second was executed in its sanitized form
C1_Witness ==
    /\ Len(oplog.recent) = 3
    /\ oplog.recent[1].op = "validate"
    /\ ~oplog.recent[1].result.is_valid
    /\ oplog.recent[3].op = "execute"
    /\ oplog.recent[3].sql # oplog.recent[2].sql

\* C10: when a request of run (with a session, headless, or under
\* ChatMessageView.post) or of stream_run has ended, the number of
\* QueryAuditLog rows created equals the number of execute_sql invocations
\* handled.
C10_OneAuditPerInvocation ==
    (pc = "done" /\ flow \in {"run", "post", "stream_run"}) => audits.n = invocations

\* the positions in the window of oplog of the calls of the validator
ValidateIndexes == {i \in 1..Len(oplog.recent) : oplog.recent[i].op = "validate"}

\* the position of the k-th call of the validator
NthValidate(k) ==
    CHOOSE i \in ValidateIndexes : Cardinality({j \in ValidateIndexes : j <= i}) = k

\* the candidate validated at position i failed validation or execution
AttemptFailed(i) ==
    \/ ~oplog.recent[i].result.is_valid
    \/ /\ i < Len(oplog.recent)
       /\ oplog.recent[i + 1].op = "execute"
       /\ ~oplog.recent[i + 1].result.success

\* C11: an audit record has its error set exactly when validation or
\* execution of its candidate SQL failed: in run and stream_run the k-th
\* record of an iteration against the k-th candidate, in chat_stream the one
\* record against the one candidate, in ChatMessageView.post the record of
\* the request against the validation of the SQL it records.
C11_ErrorIffFailed ==
    /\ (flow \in {"run", "stream_run"} /\ session) =>
            /\ Len(audits.recent) = Cardinality(ValidateIndexes)
            /\ \A k \in 1..Len(audits.recent) :
                    audits.recent[k].error.set <=> AttemptFailed(NthValidate(k))
    /\ flow = "chat_stream" =>
            \A k \in 1..Len(audits.recent) :
                    audits.recent[k].error.set <=> AttemptFailed(NthValidate(k))
    /\ (flow = "post" /\ pc = "done" /\ response = 200 /\ result.sql_used.set) =>
            \A k \in 1..Len(audits.recent) :
                    ~validator_validate[audits.recent[k].generated_sql].is_valid
                        => audits.recent[k].error.set

\* C12: for one question the orchestrator issues at most MAX_TOOL_ITERATIONS
\* (5) requests to the model, in run and in stream_run, the request with
\* stream=True for the final answer counted.
C12_RequestsWithinCeiling ==
    flow \in {"run", "post", "stream_run"} => requests <= 5

(***************************************************************************)
(* The ends of an orchestration, checked under Spec.                       *)
(***************************************************************************)
\* the orchestration of run or of stream_run is over
Ended == flow \in {"run", "post", "stream_run"} /\ pc \in {"respond", "done"} /\ iterations > 0

\* the model has answered all MAX_TOOL_ITERATIONS requests with tool calls
AllToolCalls == Ended /\ iterations = MAX_TOOL_ITERATIONS /\ reply = "tool_calls"

\* the last event that stream_run has yielded
LastEvent == events.recent[Len(events.recent)]

\* the failure after the loop: the fixed text and the max-iterations reason
MaxIterationsFailure ==
    IF flow = "stream_run"
    THEN /\ LastEvent = Event("error", "Could not process your question. Please try rephrasing it.")
         /\ \A i \in 1..Len(turns) : turns[i].status # "success"
    ELSE result = AgentResult(FALSE, SORRY, NoText, 0,
                              SomeError("Max iterations reached or unexpected finish reason", <<>>))

\* the arguments of every execute_sql call of the last completion are JSON
ArgumentsParse ==
    \A i \in 1..Len(tool_calls) :
        tool_calls[i].name = "execute_sql" => tool_calls[i].arguments.json

AssistantTurns == SelectSeq(turns, LAMBDA t : t.role = "assistant")

\* the orchestration has ended in its success terminal state
SuccessTerminal ==
    IF flow = "stream_run" THEN LastEvent.type = "done" ELSE result.success

\* C14: an orchestration of run or stream_run with a conversation attached
\* that has ended has written exactly one assistant turn, with status success
\* when it ended in success and with status failed when it ended in failure;
\* a headless run has written no turn.
C14_OneTurnPerTerminal ==
    (flow \in {"run", "stream_run"} /\ pc = "done") =>
        IF session
        THEN /\ Len(AssistantTurns) = 1
             /\ AssistantTurns[1].status = IF SuccessTerminal THEN "success" ELSE "failed"
        ELSE turns = <<>>

\* the last call of the validator or the executor, the last message
LastOp == oplog.recent[Len(oplog.recent)]
LastMessage == messages.recent[Len(messages.recent)]

\* the validation or the execution of the call failed
OpFailed(o) == IF o.op = "validate" THEN ~o.result.is_valid ELSE ~o.result.success

\* the text that tells the model of the failure
FailureText(o) ==
    IF o.op = "validate"
    THEN Format("Validation error: {}. Please fix the SQL.", o.result.error)
    ELSE Format("Query execution error: {}. Please fix the SQL.", o.result.error)

\* a step in which a validation or an execution fails
FailureStep == oplog'.n > oplog.n /\ OpFailed(LastOp')

\* C15: a step in which the validation or the execution of generated SQL fails
\* does not end the request: the failure text is appended as the tool message
\* of that call and the loop goes on to its next call or its next model
\* request.
C15_FailureFeedsBack ==
    [][FailureStep =>
            /\ pc' \in {"calls", "loop"}
            /\ LastMessage' = Message("tool", FailureText(LastOp'), <<>>, LastOp'.call)]_vars

\* the last model request of run or stream_run raised an exception
RequestRaised == flow \in {"run", "post", "stream_run"} /\ reply = "raised"

\* the error events among the events yielded since the last request of the loop
ErrorEvents == SelectSeq(events.recent, LAMBDA ev : ev.type = "error")

\* the failed outcome that names the exception
ServiceErrorOutcome ==
    \E e \in ModelErrors :
        IF flow = "stream_run"
        THEN /\ ErrorEvents = <<Event("error", Format("Service error: {}", e))>>
             /\ LastEvent.type = "error"
        ELSE result = AgentResult(FALSE, Format("Service error: {}", e), NoText, 0, SomeError(e, <<>>))

\* C16: once a model request of run or stream_run has raised an exception the
\* loop is over: the outcome is the failed result 'Service error: <text>' or
\* one error event with that text, and no step afterwards issues a model
\* request, validates or executes.
C16_ExceptionAborts ==
    /\ [](RequestRaised => (pc \in {"respond", "done"} /\ ServiceErrorOutcome))
    /\ [][RequestRaised =>
            /\ requests' = requests
            /\ iterations' = iterations
            /\ oplog' = oplog
            /\ invocations' = invocations]_vars

C16_Witness ==
    /\ RequestRaised
    /\ flow = "run"
    /\ pc = "done"
    /\ iterations = 2
    /\ invocations > 0
    /\ ~result.success

\* the prior turns of the conversation as messages for the model
HistoryMessages == [i \in 1..Len(history) |-> Message(history[i].role, history[i].content, <<>>, 0)]

\* run and stream_run are about to issue their first model request
FirstRequest == flow \in {"run", "stream_run"} /\ pc = "loop" /\ iterations = 0

\* C17: the messages sent with the first model request are the system prompt,
\* then the prior turns of the attached conversation in the order of their
\* creation, then the new user question.
C17_FirstRequestHistory ==
    FirstRequest =>
        messages.recent = <<Message("system", "system prompt", <<>>, 0)>>
                            \o HistoryMessages
                            \o <<Message("user", "question", <<>>, 0)>>

\* the contents of the chunk events yielded, in their order
ChunkEvents == SelectSeq(events.recent, LAMBDA ev : ev.type = "chunk")
ChunkContents == [i \in 1..Len(ChunkEvents) |-> ChunkEvents[i].payload]

\* the assistant turns that hold an answer
AnswerTurns == SelectSeq(turns, LAMBDA t : t.role = "assistant" /\ t.status = "success")

\* C18: in stream_run and in chat_stream no answer turn exists before the
\* stream of the final request is exhausted; the one that is then written
\* holds the concatenation, in order, of the contents of all chunk events of
\* the request.
C18_TurnAfterStream ==
    flow \in {"stream_run", "chat_stream"} =>
        /\ pc # "done" => AnswerTurns = <<>>
        /\ AnswerTurns # <<>> =>
                /\ Len(AnswerTurns) = 1
                /\ reply = "stream"
                /\ LastEvent.type = "done"
                /\ AnswerTurns[1].content = Join(ChunkContents)

C18_Witness ==
    /\ flow = "stream_run"
    /\ pc = "done"
    /\ Len(ChunkEvents) = 2
    /\ ChunkContents[1] # ChunkContents[2]
    /\ Len(AnswerTurns) = 1
    /\ AnswerTurns[1].content = <<"b", "c", "a">>

\* C19: each audit record that run, stream_run and chat_stream write holds in
\* generated_sql the text that the model generated, the text given to the
\* validator, whether the validation failed, the execution failed or the
\* execution succeeded.
C19_AuditHoldsGeneratedSql ==
    ((flow \in {"run", "stream_run"} /\ session) \/ flow = "chat_stream") =>
        \A k \in 1..Len(audits.recent) :
            audits.recent[k].generated_sql = oplog.recent[NthValidate(k)].sql

(***************************************************************************)
(* The input checks of ChatMessageView.post and chat_stream.               *)
(***************************************************************************)
\* the request has no question or names a conversation that does not exist
BadRequest ==
    /\ flow \in {"post", "chat_stream"}
    /\ \/ Strip(request.message) = <<>>
       \/ request.session_id = "unknown"

\* C20: a request to ChatMessageView.post or chat_stream whose message is
\* empty or only whitespace is answered with 400, and one whose session_id
\* matches no conversation with 404; nothing else happens: no model request,
\* no orchestration, no event, no conversation, no turn, no audit record.
C20_BadRequestRejected ==
    BadRequest =>
        /\ pc = "done"
        /\ response = IF Strip(request.message) = <<>> THEN 400 ELSE 404
        /\ requests = 0
        /\ iterations = 0
        /\ messages = EmptyLog
        /\ oplog = EmptyLog
        /\ events = EmptyLog
        /\ conversations = 0
        /\ turns = <<>>
        /\ audits = EmptyLog

C20_Witness ==
    /\ flow = "chat_stream"
    /\ request.message = <<" ">>
    /\ request.session_id = "none"
    /\ response = 400
    /\ pc = "done"

(***************************************************************************)
(* Properties of SchemaExtractor, checked under SpecSchema.                *)
(***************************************************************************)
\* the call that returned last began after the call before it had returned,
\* and no invalidation or expiry has come since that earlier call began
SuccessiveCalls == last.call.set /\ last.prev.set /\ last.prev.unbroken

\* the second of two successive calls does not build and returns the text of
\* the first
SecondCallReuses == SuccessiveCalls => (~last.call.built /\ last.call.text = last.prev.text)

\* the first call after an invalidate() that ran with no call in progress builds
FreshCallBuilds == (last.call.set /\ last.fresh) => last.call.built

\* C21 as stated: get_schema calls with no invalidate and no expiry between
\* them trigger at most one build and return the same text, and the call
\* after invalidate() builds again.
C21_OneBuildBetweenInvalidations ==
    /\ builds <= 1
    /\ SecondCallReuses
    /\ FreshCallBuilds

\* C21: of two get_schema calls, the second beginning after the first has
\* returned, with no invalidate and no expiry between them, the second does not
\* build and returns the text of the first, so that they trigger at most one
\* build; the first call after an invalidate() that ran with no call in progress
\* builds; and every call that builds stores its text for CACHE_TTL seconds.
C21_CachedUntilInvalidated ==
    /\ [](SecondCallReuses /\ FreshCallBuilds)
    /\ [][\A p \in Callers :
            (spc[p] = "store" /\ spc'[p] = "idle") =>
                /\ cache' = Entry(returned'[p], now + CACHE_TTL)
                /\ returned'[p] = SchemaText]_vars

C21_Witness ==
    /\ SuccessiveCalls
    /\ last.prev.built
    /\ ~last.call.built
    /\ invalidations > 0
    /\ now > 0
    /\ returned["t1"] = SchemaText
    /\ returned["t2"] = SchemaText

(***************************************************************************)
(* The cache entry under concurrent callers, checked under SpecSchema.     *)
(***************************************************************************)
\* the entry is absent, or holds the text of all models
WholeEntry(entry) == entry = NoEntry \/ (entry.set /\ entry.value = SchemaText)

\* C31: whatever the interleaving of the get_schema calls of two callers, of
\* invalidate() and of the passing of time, the cache entry is absent or holds
\* the complete schema text, also while a caller is inside the loop of
\* _build_schema; the entry changes only by being deleted or by the cache.set
\* of a caller, which puts the complete text in one step; and a get_schema
\* call returns the complete text, never the parts built so far.
C31_EntryWholeOrAbsent ==
    /\ [](/\ WholeEntry(cache)
          /\ \A p \in Callers :
                /\ WholeEntry(cached[p])
                /\ returned[p] \in {NoSchema, SchemaText}
                /\ spc[p] = "store" => schema[p] = SchemaText)
    /\ [][/\ cache' # cache =>
                \/ cache' = NoEntry
                \/ \E p \in Callers :
                        /\ spc[p] = "store"
                        /\ spc'[p] = "idle"
                        /\ cache' = Entry(SchemaText, now + CACHE_TTL)
          /\ \A p \in Callers :
                (spc[p] # "idle" /\ spc'[p] = "idle") => returned'[p] = SchemaText]_vars

\* one caller is inside the loop of _build_schema with some parts built,
\* while the entry stored by the other is in the cache after an invalidation
C31_Witness ==
    /\ spc["t1"] = "build"
    /\ scanned["t1"] \in 2..(Len(Models) - 1)
    /\ cache.set
    /\ invalidations > 0
    /\ returned["t2"] = SchemaText
    /\ last.call.built

(***************************************************************************)
(* The reasons SQLValidator.validate gives, checked under SpecValidator.   *)
(***************************************************************************)
\* the places in t where a blocklisted keyword begins as a whole word
DangerousStarts(t) ==
    LET up == Upper(t)
    IN  {i \in 1..Len(up) :
            /\ IsWord(up[i])
            /\ (i = 1 \/ ~IsWord(up[i - 1]))
            /\ SubSeq(up, i, Scan(up, i, WordChars) - 1) \in DANGEROUS_KEYWORDS}

\* the first blocklisted keyword of t, as it is written in t
OffendingToken(t) ==
    LET i == Min(DangerousStarts(t))
    IN  SubSeq(t, i, Scan(Upper(t), i, WordChars) - 1)

\* the check that fails first: emptiness, then SELECT, then the blocklist
FirstFailingCheck(sql) ==
    IF sql = <<>> THEN "empty"
    ELSE IF ~BeginsWithSelect(Clean(sql)) THEN "select"
    ELSE IF DangerousStarts(Clean(sql)) # {} THEN "keyword"
    ELSE "none"

ClassifiedNoQuery ==
    /\ flow = "chat_stream"
    /\ messages.n > 0
    /\ LET sql == Strip(messages.recent[1].content)
       IN  Len(sql) >= Len(NO_QUERY) /\ \A i \in 1..Len(NO_QUERY) : ToUpper(sql[i]) = NO_QUERY[i]

\* C23: when the answer to the classification request is NO_QUERY, chat_stream
\* calls neither the validator nor the executor and writes no audit record;
\* after the two status events it yields only chunk events, and when the
\* stream is exhausted a done event with row_count 0, the answer turn holding
\* the text of the chunks.
C23_NoQueryTouchesNoData ==
    ClassifiedNoQuery =>
        /\ oplog = EmptyLog
        /\ audits = EmptyLog
        /\ invocations = 0
        /\ ~sql_used.set
        /\ pc \in {"final", "chunks", "done", "crashed"}
        /\ SubSeq(events.recent, 1, 2) = <<Event("status", "Analyzing your question..."),
                                            Event("status", "Responding...")>>
        /\ \A i \in 3..Len(events.recent) :
                \/ events.recent[i].type = "chunk"
                \/ i = Len(events.recent) /\ pc = "done"
        /\ pc = "done" =>
                /\ LastEvent = Event("done", 0)
                /\ Len(AnswerTurns) = 1
                /\ AnswerTurns[1].content = Join(ChunkContents)

C23_Witness ==
    /\ ClassifiedNoQuery
    /\ messages.recent[1].content # NO_QUERY
    /\ pc = "done"
    /\ Len(ChunkEvents) = 2
    /\ LastEvent = Event("done", 0)

(***************************************************************************)
(* The requests of the tool loop, checked under Spec.                      *)
(***************************************************************************)
\* a step in which run or stream_run sends a request of the tool loop
LoopRequestStep == iterations' = iterations + 1

\* an answer of the model has been accepted as the final answer
AnswerAccepted ==
    /\ flow \in {"run", "post", "stream_run"}
    /\ \/ flow # "stream_run" /\ result.success
       \/ flow = "stream_run" /\ pc \in {"final", "chunks"}
       \/ flow = "stream_run" /\ AnswerTurns # <<>>

\* C24: the first request of the tool loop of run and of stream_run is sent
\* with tool_choice 'required' and every later one with 'auto'; no answer is
\* accepted before the first request has been sent.
C24_ToolRequiredFirst ==
    /\ [][LoopRequestStep =>
            tool_choice' = IF iterations = 0 THEN "required" ELSE "auto"]_vars
    /\ [](AnswerAccepted => iterations >= 1)
    /\ []((flow \in {"run", "post", "stream_run"} /\ iterations = 1 /\ pc \in {"calls", "yield_sql", "yield_fetching"})
            => tool_choice = "required")

C24_Witness ==
    /\ flow = "run"
    /\ iterations = 2
    /\ tool_choice = "auto"
    /\ reply = "stop"
    /\ result.success
    /\ invocations > 0

\* the last completion had a finish reason other than tool_calls and stop
OtherFinish == flow \in {"run", "post", "stream_run"} /\ reply \notin {"none", "raised", "tool_calls", "stop", "stream"}

\* C25: a completion whose finish reason is neither tool_calls nor stop ends
\* run and stream_run at once with the generic failure, the fixed apologetic
\* text or the fixed error event, and never a success; the step that receives
\* it and the steps after it send no request and call neither the validator
\* nor the executor.
C25_OtherFinishFails ==
    /\ [](OtherFinish => (pc \in {"respond", "done"} /\ MaxIterationsFailure))
    /\ [][OtherFinish' =>
            /\ oplog'.n = oplog.n
            /\ invocations' = invocations
            /\ iterations' = iterations \/ ~OtherFinish
            /\ requests' = requests \/ ~OtherFinish]_vars

C25_Witness ==
    /\ OtherFinish
    /\ flow = "stream_run"
    /\ iterations = 2
    /\ invocations > 0
    /\ pc = "done"
    /\ LastEvent.type = "error"

(***************************************************************************)
(* The tool calls of one completion, checked under Spec.                   *)
(***************************************************************************)
\* the for loop over the tool calls of the last completion is running or has
\* run to its end
InToolCalls ==
    /\ flow \in {"run", "post", "stream_run"}
    /\ reply = "tool_calls"
    /\ pc \in {"calls", "yield_sql", "yield_fetching", "loop"}

\* the ids of the execute_sql calls that the for loop has dealt with, in the
\* order in which the model listed them
HandledCalls ==
    LET handled == IF pc = "loop" THEN Len(tool_calls) ELSE tc - 1
        calls == SelectSeq(SubSeq(tool_calls, 1, handled), LAMBDA c : c.name = "execute_sql")
    IN  [i \in 1..Len(calls) |-> calls[i].id]

\* the ids of the calls validated, in the order of the validations
ValidatedCalls ==
    LET ops == SelectSeq(oplog.recent, LAMBDA o : o.op = "validate")
    IN  [i \in 1..Len(ops) |-> ops[i].call]

\* the tool messages appended since the completion
ToolMessages == SelectSeq(messages.recent, LAMBDA m : m.role = "tool")

\* C26: the execute_sql calls of one completion are dealt with one at a time
\* in the order of the model's list: validations, executions and audit records
\* follow that order, the execution of a call coming directly after its own
\* validation, and the tool messages are appended in that order after the
\* assistant message; when the loop returns to the model request every call
\* of the list has been dealt with.
C26_CallsInOrder ==
    InToolCalls =>
        /\ ValidatedCalls = HandledCalls
        /\ \A i \in 1..Len(oplog.recent) :
                oplog.recent[i].op = "execute" =>
                    /\ i > 1
                    /\ oplog.recent[i - 1].op = "validate"
                    /\ oplog.recent[i - 1].call = oplog.recent[i].call
        /\ [i \in 1..Len(ToolMessages) |-> ToolMessages[i].tool_call_id] = HandledCalls
        /\ messages.recent = <<Message("assistant", "", tool_calls, 0)>> \o ToolMessages
        /\ session => Len(audits.recent) = Len(HandledCalls)

\* two execute_sql calls in one completion, the first rejected by the
\* validator and the second executed, both answered before the next request
C26_Witness ==
    /\ InToolCalls
    /\ pc = "loop"
    /\ flow = "stream_run"
    /\ Len(HandledCalls) = 2
    /\ Len(oplog.recent) = 3
    /\ ~oplog.recent[1].result.is_valid
    /\ ToolMessages[1].tool_call_id < ToolMessages[2].tool_call_id

(***************************************************************************)
(* The events of stream_run, checked under Spec.                           *)
(***************************************************************************)
\* the two events that announce the query of a tool call
CallEvents(call) ==
    <<Event("sql", call.arguments.sql), Event("status", "Fetching data...")>>

RECURSIVE EventsOf(_)
EventsOf(calls) ==
    IF calls = <<>> THEN <<>> ELSE CallEvents(Head(calls)) \o EventsOf(Tail(calls))

\* the events due since the last completion: those of the calls dealt with
\* and those already yielded for the call in hand
EventsDue ==
    LET handled == IF pc = "loop" THEN Len(tool_calls) ELSE tc - 1
        calls == SelectSeq(SubSeq(tool_calls, 1, handled), LAMBDA c : c.name = "execute_sql")
    IN  EventsOf(calls) \o
            (CASE pc = "yield_sql" -> <<CallEvents(tool_calls[tc])[1]>>
               [] pc = "yield_fetching" -> CallEvents(tool_calls[tc])
               [] OTHER -> <<>>)

\* C27: in stream_run the sql event, with the text the model generated, and
\* then the status event 'Fetching data...' are yielded for each execute_sql
\* call before that call is validated or executed, and no event is yielded
\* while it is; the status event 'Preparing response...' is the last event
\* before the request with stream=True.
C27_EventsBeforeSteps ==
    /\ []((InToolCalls /\ flow = "stream_run") => events.recent = EventsDue)
    /\ [][(flow = "stream_run" /\ oplog'.n > oplog.n) =>
            /\ Len(events.recent) >= 2
            /\ SubSeq(events.recent, Len(events.recent) - 1, Len(events.recent))
                    = CallEvents(tool_calls[tc])
            /\ LastOp'.call = tool_calls[tc].id
            /\ events' = events]_vars
    /\ [][(flow = "stream_run" /\ requests' = requests + 1 /\ iterations' = iterations) =>
            /\ LastEvent = Event("status", "Preparing response...")
            /\ events'.n = events.n \/ reply' = "raised"]_vars

C27_Witness ==
    /\ flow = "stream_run"
    /\ InToolCalls
    /\ pc = "loop"
    /\ Len(events.recent) = 4
    /\ events.recent[1].payload # events.recent[3].payload
    /\ Len(oplog.recent) = 3

(***************************************************************************)
(* run and stream_run compared, checked under Spec.                        *)
(***************************************************************************)
\* the tool loop ended otherwise than with a stop completion: the ceiling, a
\* finish reason that is not known, or an exception inside the loop
LoopFailed ==
    \/ reply \in {"tool_calls", "length"}
    \/ reply = "raised" /\ requests = iterations

\* the assistant turn that run writes at the end of a tool loop, as a function
\* of how the loop ended
TerminalStatuses == IF LoopFailed THEN <<"failed">> ELSE <<"success">>

\* the end of an orchestration with a conversation attached; in stream_run
\* the stream of the further request has been delivered when there is one
ComparableEnd ==
    /\ flow \in {"run", "stream_run"}
    /\ session
    /\ pc = "done"
    /\ LoopFailed \/ reply \in {"stop", "stream"}

\* C28: for the same completions of the model the two modes write the same
\* terminal assistant turns: stream_run, like run, writes one turn with status
\* failed when the tool loop fails and one with status success when it ends
\* with stop; validations, executions, audit records and tool messages are
\* made by the same steps in both modes.
C28_SameWritesInBothModes ==
    ComparableEnd => [i \in 1..Len(AssistantTurns) |-> AssistantTurns[i].status] = TerminalStatuses

\* the orchestration of run (alone or under ChatMessageView.post) or of
\* stream_run is under way
Orchestrating == flow \in {"run", "post", "stream_run"} /\ pc \notin {"idle", "respond", "done"}

\* the orchestration has returned, or its generator is exhausted
Orchestrated == flow \in {"run", "post", "stream_run"} /\ pc \in {"respond", "done"} /\ iterations > 0

\* the events that close a stream
OutcomeEvents == SelectSeq(events.recent, LAMBDA e : e.type \in {"done", "error"})

\* the steps a turn of the loop can take after its request: three for each
\* tool call, and the calls of one completion are fewer than this
TurnSteps == 3 * (MAX_TOOL_ITERATIONS + MaxExtraCalls) + 1

\* a bound on the steps the orchestration can still take
StepsLeft ==
    CASE pc \in {"done", "crashed"} -> 0
      [] pc = "respond" -> 1
      [] pc = "chunks" -> 2 + (MaxChunks - Len(full_response))
      [] pc = "final" -> 3 + MaxChunks
      [] pc = "loop" -> 4 + MaxChunks + (MAX_TOOL_ITERATIONS - iterations) * TurnSteps
      [] pc = "calls" ->
            4 + MaxChunks + (MAX_TOOL_ITERATIONS - iterations) * TurnSteps + 3 * (Len(tool_calls) - tc) + 3
      [] pc = "yield_sql" ->
            4 + MaxChunks + (MAX_TOOL_ITERATIONS - iterations) * TurnSteps + 3 * (Len(tool_calls) - tc) + 2
      [] pc = "yield_fetching" ->
            4 + MaxChunks + (MAX_TOOL_ITERATIONS - iterations) * TurnSteps + 3 * (Len(tool_calls) - tc) + 1
      [] OTHER -> 5 + MaxChunks + (MAX_TOOL_ITERATIONS + 1) * TurnSteps

\* run has returned an AgentResult that is a success or carries an error, not
\* both and not neither; stream_run has yielded one closing event, the last
OneOutcome ==
    IF flow = "stream_run"
    THEN /\ Len(OutcomeEvents) = 1
         /\ LastEvent.type \in {"done", "error"}
    ELSE result.success # result.error.set

\* C29: every orchestration of run and of stream_run ends, whatever the model
\* answers: while it is under way a step can be taken, each step lowers a bound
\* on the steps left (a model that asks for tools in every answer is stopped by
\* the ceiling), and nothing is returned or closed before the end; at the end
\* there is exactly one outcome, a success or a failure with its reason.
C29_EndsWithOneOutcome ==
    /\ [](/\ Orchestrating => ENABLED <<Next>>_vars
          /\ Orchestrating => (result = NoAgentResult /\ OutcomeEvents = <<>>)
          /\ Orchestrated => OneOutcome
          /\ StepsLeft >= 0)
    /\ [][Orchestrating => StepsLeft' < StepsLeft]_vars

C29_Witness ==
    /\ flow = "run"
    /\ pc = "done"
    /\ iterations = MAX_TOOL_ITERATIONS
    /\ reply = "tool_calls"
    /\ ~result.success
    /\ result.error = SomeError("Max iterations reached or unexpected finish reason", <<>>)

(***************************************************************************)
(* stream_run and a caller that goes away, checked under SpecStream.       *)
(***************************************************************************)
\* the turns and the audit records written so far are still there, as written
WritesKept ==
    /\ Len(turns') >= Len(turns)
    /\ SubSeq(turns', 1, Len(turns)) = turns
    /\ \/ audits' \in {audits, Window(audits)}
       \/ /\ audits'.n = audits.n + 1
          /\ SubSeq(audits'.recent, 1, Len(audits.recent)) = audits.recent

\* C32 as stated: once the caller has disconnected no event is yielded, no
\* request to the model is made, no validation or execution of a tool call is
\* begun, and the turns and audit records already written stay as they are.
C32_NothingAfterDisconnect ==
    [][~connected =>
            /\ events' = events
            /\ requests' = requests
            /\ oplog' = oplog
            /\ WritesKept]_vars

\* the generator of stream_run is exhausted
StreamEnded == flow = "stream_run" /\ pc = "done"

\* C33: a stream of stream_run that is read to its end has yielded exactly one
\* done or error event, as its last event; while the generator runs it has
\* yielded none, and after it nothing is yielded; when the event is done, the
\* assistant turn with status success has been written, with the text of the
\* chunks; done and error are never both in one stream.
C33_OneTerminalEvent ==
    /\ [](flow = "stream_run" =>
            /\ pc # "done" => OutcomeEvents = <<>>
            /\ pc = "done" =>
                    /\ Len(OutcomeEvents) = 1
                    /\ LastEvent = OutcomeEvents[1]
                    /\ LastEvent.type = "done" =>
                            /\ Len(AssistantTurns) = 1
                            /\ AssistantTurns[1] = ChatMessage("assistant", Join(full_response), "success")
                    /\ LastEvent.type = "error" => AnswerTurns = <<>>)
    /\ [][(flow = "stream_run" /\ OutcomeEvents # <<>>) => events' = events]_vars

\* a stream that failed after chunks had been yielded, and one that ended in
\* done, are both reached; this is the first
C33_Witness ==
    /\ StreamEnded
    /\ ChunkEvents # <<>>
    /\ LastEvent.type = "error"
    /\ invocations > 0

(***************************************************************************)
(* The answers to the tool calls of a completion, checked under Spec.      *)
(***************************************************************************)
\* the for loop over the tool calls of the last completion has run to its
\* end: the next step is a request to the model, or the end at the ceiling
BeforeNextRequest ==
    /\ flow \in {"run", "post", "stream_run"}
    /\ reply = "tool_calls"
    /\ pc = "loop"

\* the tool messages that answer the call
AnswersTo(call) == {j \in 1..Len(ToolMessages) : ToolMessages[j].tool_call_id = call.id}

\* C34 as stated: when the loop comes back to the request to the model, every
\* tool call of the preceding completion, whatever tool it names, has exactly
\* one tool message with its id in the history.
C34_EveryCallAnswered ==
    BeforeNextRequest =>
        \A i \in 1..Len(tool_calls) : Cardinality(AnswersTo(tool_calls[i])) = 1

(***************************************************************************)
(* The row count an orchestration reports, checked under Spec.             *)
(***************************************************************************)
\* this step holds a successful execution
ExecutedNow ==
    /\ oplog'.n > oplog.n
    /\ LastOp'.op = "execute"
    /\ LastOp'.result.success

\* row_count is 0 when the loop begins, becomes the row count of an execution
\* in the step of its success and is left alone by every other step
TracksLastExecution ==
    /\ (pc = "idle" /\ pc' = "loop") => row_count' = 0
    /\ (pc # "idle" /\ ExecutedNow) => row_count' = LastOp'.result.row_count
    /\ (pc # "idle" /\ ~ExecutedNow) => row_count' = row_count

\* run or stream_run has ended
AtEnd == flow \in {"run", "post", "stream_run"} /\ pc \in {"respond", "done"} /\ iterations > 0

\* C35 as stated: the row count reported at the end, in the AgentResult or in
\* the done event, is the row count of the most recent successful execution of
\* the orchestration, 0 when there was none.
C35_ReportsLastExecution ==
    AtEnd =>
        IF flow = "stream_run"
        THEN LastEvent.type = "done" => LastEvent.payload = row_count
        ELSE result.row_count = row_count

\* C35: the row count reported at a successful end, in the AgentResult with
\* success or in the done event, is the row count of the most recent successful
\* execution of the orchestration and 0 when none succeeded; a validation or
\* execution that fails later leaves it as it is, and it is never a sum over
\* executions. The AgentResult of a failure reports 0 whatever was executed.
C35_SuccessReportsLastExecution ==
    /\ [](AtEnd =>
            IF flow = "stream_run"
            THEN LastEvent.type = "done" => LastEvent.payload = row_count
            ELSE result.row_count = IF result.success THEN row_count ELSE 0)
    /\ [][flow' \in {"run", "post", "stream_run"} => TracksLastExecution]_vars

\* a success after three tool calls that reports the one row of the execution
\* that succeeded last
C35_Witness ==
    /\ flow = "run"
    /\ pc = "done"
    /\ result.success
    /\ result.row_count = 1
    /\ invocations = 3
    /\ audits.n = 3

(***************************************************************************)
(* Arguments of a tool call that do not parse, checked under Spec.         *)
(***************************************************************************)
\* the for loop is at an execute_sql call whose arguments are not JSON
AtUnparsedCall ==
    /\ flow \in {"run", "post", "stream_run"}
    /\ pc = "calls"
    /\ tool_calls[tc].name = "execute_sql"
    /\ ~tool_calls[tc].arguments.json

\* the orchestration has ended as it ends when a request to the model raises,
\* with the text of the JSON error
EndedOnArguments ==
    /\ flow \in {"run", "post", "stream_run"}
    /\ pc \in {"respond", "done"}
    /\ reply = "tool_calls"
    /\ tool_calls[tc].name = "execute_sql"
    /\ ~tool_calls[tc].arguments.json
    /\ IF flow = "stream_run"
       THEN OutcomeEvents = <<Event("error", Format("Service error: {}", JsonError))>>
       ELSE /\ result.error = SomeError(JsonError, <<>>)
            /\ result = AgentResult(FALSE, Format("Service error: {}", JsonError), NoText, 0,
                                    SomeError(JsonError, <<>>))

\* C36: the step at an execute_sql call whose arguments do not parse ends the
\* orchestration as an exception of a request to the model does: run returns
\* the failure with 'Service error: ...' (and writes the failed turn when a
\* conversation is attached), stream_run yields the error event and writes no
\* turn; the step makes
\* no validation and no execution, writes no audit record and appends no tool
\* message, and afterwards no request is made to the model and no call is
\* validated or executed.
C36_UnparsedArgumentsAbort ==
    /\ [][AtUnparsedCall =>
            /\ EndedOnArguments'
            /\ oplog' = oplog
            /\ invocations' = invocations
            /\ audits' = audits
            /\ messages' = messages
            /\ requests' = requests
            /\ turns' = IF session /\ flow # "stream_run"
                        THEN Append(turns, ChatMessage("assistant", Format("Service error: {}", JsonError),
                                                       "failed"))
                        ELSE turns]_vars
    /\ [][EndedOnArguments =>
            /\ requests' = requests
            /\ oplog' = oplog
            /\ messages' = messages
            /\ EndedOnArguments']_vars

\* the second call of a completion had arguments that do not parse: the first
\* was executed and audited, the second ended the run
C36_Witness ==
    /\ EndedOnArguments
    /\ flow = "run"
    /\ session
    /\ Len(tool_calls) = 2
    /\ tc = 2
    /\ Len(audits.recent) = 1
    /\ Len(ToolMessages) = 1

\* ChatMessageView.post has accepted its request: neither the 400 nor the 404
\* return was taken
PostAccepted == flow = "post" /\ pc # "idle" /\ response \notin {400, 404}

HiddenKeywords(t) ==
    {kw \in DANGEROUS_KEYWORDS :
        \E w \in WholeWords(t) :
            /\ Len(w) > Len(kw)
            /\ \E i \in 1..(Len(w) - Len(kw) + 1) : SubSeq(w, i, i + Len(kw) - 1) = kw}

\* C38: the tokens of the blocklist scan are the maximal runs of letters,
\* digits and underscores of the cleaned text, and a text whose cleaned form
\* begins with SELECT and holds no blocklisted keyword as a whole word is
\* returned Valid with no reason, also when a blocklisted keyword is part of
\* one of its longer words.
C38_SubstringsPass ==
    Validated =>
        /\ Range(Tokens(Upper(Clean(vsql)))) = WholeWords(Clean(vsql))
        /\ (BeginsWithSelect(Clean(vsql)) /\ DangerousWords(Clean(vsql)) = {}) =>
                /\ vres.is_valid
                /\ vres.error = NoError

\* the text SELECT adrop_at: drop stands between a letter and an underscore
C38_Witness ==
    /\ vphase = "validated"
    /\ vsql = PieceSelect \o PieceDrop \o PieceAt
    /\ HiddenKeywords(Clean(vsql)) = {<<"D", "R", "O", "P">>}
    /\ DangerousWords(Clean(vsql)) = {}
    /\ vres.is_valid

=============================================================================
